---- MODULE Spec2Model ----
(***************************************************************************)
(* State-machine model of the InsightsAPI market-data core:                *)
(*   app/core/cache.py                 CacheManager over a Redis store     *)
(*   app/services/alphavantage_service.py   rate limiter, source adapters, *)
(*                                     get_price_with_history, batch fetch *)
(*   app/services/analysis_service.py  indicators, signal fusion,          *)
(*                                     compute_signal_bundle, overview     *)
(*                                                                         *)
(* Python values are modelled as TLA+ records (dicts are functions with    *)
(* string domains).  Strings that the code inspects character by character *)
(* (symbols, numeric text of provider fields) are sequences of             *)
(* one-character strings; keys are built by real string concatenation.     *)
(* Time is counted in whole seconds on one clock.                          *)
(***************************************************************************)
EXTENDS Integers, Sequences, FiniteSets, TLC

VARIABLES
    now,                 \* the clock, seconds (event-loop time and store time)
    nticks,              \* number of one-second advances taken so far (bounded)
    ncalls,              \* number of top-level calls made so far (bounded)
    redis_up,            \* whether the Redis server answers at this moment
    store,               \* Redis contents: full key -> [val, exp]
    cache_manager,       \* cache.py global cache_manager: "None" or "CacheManager"
    settings,            \* app.config.settings, the fields the core reads
    _last_request_time,  \* alphavantage_service.py module global
    rl,                  \* returns of _rate_limit: [returned, min_gap]
    gp,                  \* per task: frame of a get_price_with_history call
    cb,                  \* frame of a compute_signal_bundle call
    batch,               \* frame of a get_multiple_prices call
    cm,                  \* last direct CacheManager.set per full key, last operation,
                         \* and the clear_namespace call between KEYS and DEL
    probe,               \* one direct call of a source adapter: its input and outcome
    eq,                  \* one acquisition run under two configurations, one after the other
    sig,                 \* one call of generate_trading_signals: its inputs and its return
    ind,                 \* one call of an indicator function: its inputs and its return
    acq,                 \* the get_price_with_history calls that returned, the SETEX commands executed
    ct,                  \* per task: a CacheManager.set or get in flight, and the order of effects
    ov,                  \* one call of get_market_overview: its tasks, their bundles, its return
    win                  \* the series the primary provider sends, and the closes taken of it

vars == <<now, nticks, ncalls, redis_up, store, cache_manager, settings,
          _last_request_time, rl, gp, cb, batch, cm, probe, eq, sig, ind, acq, ct, ov, win>>

-----------------------------------------------------------------------------
(* Bounds of the model *)

MaxTicks == 2
MaxCalls == 2
MaxTasks == 2

(* Program constants *)

RATE_LIMIT_DELAY == 1
DEVELOPMENT_CACHE_TTL == 60
PRODUCTION_CACHE_TTL == 600
PRICE_TTL == 300
SIGNAL_TTL == 600
MIN_PRICES == 26
HISTORY_LIMIT == 30
SIGNAL_WINDOW == 50

-----------------------------------------------------------------------------
(* Python values *)

None == [none |-> TRUE]
PyInt(n) == [int |-> n]
EmptyDict == [k \in {} |-> None]

\* bool(v) for the values the code tests with "if v:" / "if not v:":
\* None and the empty dict are falsy, a dict with keys is truthy.
Truthy(v) == v # None /\ DOMAIN v # {}

\* "x or y" on an Optional[int]
IntOr(x, y) == IF x = None \/ x.int = 0 THEN y ELSE x.int

-----------------------------------------------------------------------------
(* Numbers.  Python ints and floats are modelled as exact rationals in      *)
(* lowest terms, [num, den] with den > 0, so that equal numbers are equal   *)
(* records (150 and 150.0 are the same number).  The values float() gives   *)
(* for the texts "nan", "inf" and "-inf" are 0/0, 1/0 and -1/0; no          *)
(* arithmetic is defined on them.                                           *)

Abs(n) == IF n < 0 THEN -n ELSE n

RECURSIVE GCD(_, _)
GCD(a, b) == IF b = 0 THEN a ELSE GCD(b, a % b)

Frac(n, d) ==
    LET s == IF d < 0 THEN -1 ELSE 1
        g == GCD(Abs(n), Abs(d))
    IN [num |-> (s * n) \div g, den |-> (s * d) \div g]

Num(n) == [num |-> n, den |-> 1]

NaN == [num |-> 0, den |-> 0]
Infinity(sign) == [num |-> sign, den |-> 0]

RatAdd(a, b) == Frac(a.num * b.den + b.num * a.den, a.den * b.den)
RatSub(a, b) == Frac(a.num * b.den - b.num * a.den, a.den * b.den)
RatMul(a, b) == Frac(a.num * b.num, a.den * b.den)
RatDiv(a, b) == Frac(a.num * b.den, a.den * b.num)
RatLt(a, b) == a.num * b.den < b.num * a.den
RatLe(a, b) == a.num * b.den <= b.num * a.den
RatGt(a, b) == RatLt(b, a)
RatGe(a, b) == RatLe(b, a)
RatMax(a, b) == IF RatGe(a, b) THEN a ELSE b
RatMin(a, b) == IF RatLe(a, b) THEN a ELSE b
RatAbs(a) == [num |-> Abs(a.num), den |-> a.den]

\* int(x) of a number: truncation towards zero
Trunc(a) == IF a.num >= 0 THEN a.num \div a.den ELSE 0 - ((0 - a.num) \div a.den)

RECURSIVE ISqrtBetween(_, _, _)
\* the largest whole number between lo and hi whose square is at most n
ISqrtBetween(n, lo, hi) ==
    IF lo >= hi THEN lo
    ELSE LET mid == (lo + hi + 1) \div 2
         IN IF mid <= n \div mid THEN ISqrtBetween(n, mid, hi) ELSE ISqrtBetween(n, lo, mid - 1)

IsSquare(n) == ISqrtBetween(n, 0, n) * ISqrtBetween(n, 0, n) = n

\* The square root of a rational that is not the square of a rational has
\* no [num, den].  The number rat + coef * sqrt(radicand) is kept exactly,
\* as a record of its three rationals; the numbers computed from one square
\* root all share its radicand.
Surd(rat, coef, radicand) == [rat |-> rat, coef |-> coef, radicand |-> radicand]
IsSurd(x) == DOMAIN x = {"rat", "coef", "radicand"}

RatPart(x) == IF IsSurd(x) THEN x.rat ELSE x
Coef(x) == IF IsSurd(x) THEN x.coef ELSE Num(0)
Radicand(x, y) == IF IsSurd(x) THEN x.radicand ELSE IF IsSurd(y) THEN y.radicand ELSE Num(0)

\* rat + coef * sqrt(radicand) as a value: a rational when coef is 0
Real(rat, coef, radicand) == IF coef = Num(0) THEN rat ELSE Surd(rat, coef, radicand)

RealAdd(x, y) ==
    Real(RatAdd(RatPart(x), RatPart(y)), RatAdd(Coef(x), Coef(y)), Radicand(x, y))
RealSub(x, y) ==
    Real(RatSub(RatPart(x), RatPart(y)), RatSub(Coef(x), Coef(y)), Radicand(x, y))
RealMul(x, y) ==
    Real(RatAdd(RatMul(RatPart(x), RatPart(y)),
                RatMul(RatMul(Coef(x), Coef(y)), Radicand(x, y))),
         RatAdd(RatMul(RatPart(x), Coef(y)), RatMul(Coef(x), RatPart(y))),
         Radicand(x, y))
\* 1 / (c + d * sqrt(v)) = (c - d * sqrt(v)) / (c * c - d * d * v)
RealInverse(y) ==
    LET norm == RatSub(RatMul(RatPart(y), RatPart(y)),
                       RatMul(RatMul(Coef(y), Coef(y)), Radicand(y, y)))
    IN Real(RatDiv(RatPart(y), norm), RatDiv(RatSub(Num(0), Coef(y)), norm), Radicand(y, y))
RealDiv(x, y) == RealMul(x, RealInverse(y))

RatSign(a) == IF a.num > 0 THEN 1 ELSE IF a.num < 0 THEN -1 ELSE 0

\* the sign of rat + coef * sqrt(radicand): where the two parts pull apart
\* their squares decide
RealSign(x) ==
    IF ~IsSurd(x) THEN RatSign(x)
    ELSE IF RatSign(x.rat) = RatSign(x.coef) \/ x.rat = Num(0) THEN RatSign(x.coef)
    ELSE LET rat2 == RatMul(x.rat, x.rat)
             surd2 == RatMul(RatMul(x.coef, x.coef), x.radicand)
         IN IF RatGt(rat2, surd2) THEN RatSign(x.rat)
            ELSE IF RatLt(rat2, surd2) THEN RatSign(x.coef)
            ELSE 0

RealLt(x, y) == RealSign(RealSub(x, y)) < 0
RealLe(x, y) == RealSign(RealSub(x, y)) <= 0
RealGt(x, y) == RealLt(y, x)
RealGe(x, y) == RealLe(y, x)

\* math.sqrt(x) for x >= 0, exactly
math_sqrt(x) ==
    IF IsSquare(x.num) /\ IsSquare(x.den)
    THEN Frac(ISqrtBetween(x.num, 0, x.num), ISqrtBetween(x.den, 0, x.den))
    ELSE Surd(Num(0), Num(1), x)

-----------------------------------------------------------------------------
(* Character strings *)

\* str.upper() maps each character by the full case mapping of Unicode and
\* joins the results: one character can become two or three ("ß" gives
\* "SS").  UpperTable lists every character that a string of this module can
\* hold and that upper() changes, with the characters it becomes.  A
\* character that a string of this module cannot hold is written by the
\* name of its code point: "U+0178" is the one character LATIN CAPITAL
\* LETTER Y WITH DIAERESIS.
UpperTable == <<
    <<"a", <<"A">>>>, <<"b", <<"B">>>>, <<"c", <<"C">>>>, <<"d", <<"D">>>>,
    <<"e", <<"E">>>>, <<"f", <<"F">>>>, <<"g", <<"G">>>>, <<"h", <<"H">>>>,
    <<"i", <<"I">>>>, <<"j", <<"J">>>>, <<"k", <<"K">>>>, <<"l", <<"L">>>>,
    <<"m", <<"M">>>>, <<"n", <<"N">>>>, <<"o", <<"O">>>>, <<"p", <<"P">>>>,
    <<"q", <<"Q">>>>, <<"r", <<"R">>>>, <<"s", <<"S">>>>, <<"t", <<"T">>>>,
    <<"u", <<"U">>>>, <<"v", <<"V">>>>, <<"w", <<"W">>>>, <<"x", <<"X">>>>,
    <<"y", <<"Y">>>>, <<"z", <<"Z">>>>, <<"µ", <<"Μ">>>>,
    <<"ß", <<"S", "S">>>>, <<"à", <<"À">>>>, <<"á", <<"Á">>>>,
    <<"â", <<"Â">>>>, <<"ã", <<"Ã">>>>, <<"ä", <<"Ä">>>>, <<"å", <<"Å">>>>,
    <<"æ", <<"Æ">>>>, <<"ç", <<"Ç">>>>, <<"è", <<"È">>>>, <<"é", <<"É">>>>,
    <<"ê", <<"Ê">>>>, <<"ë", <<"Ë">>>>, <<"ì", <<"Ì">>>>, <<"í", <<"Í">>>>,
    <<"î", <<"Î">>>>, <<"ï", <<"Ï">>>>, <<"ð", <<"Ð">>>>, <<"ñ", <<"Ñ">>>>,
    <<"ò", <<"Ò">>>>, <<"ó", <<"Ó">>>>, <<"ô", <<"Ô">>>>, <<"õ", <<"Õ">>>>,
    <<"ö", <<"Ö">>>>, <<"ø", <<"Ø">>>>, <<"ù", <<"Ù">>>>, <<"ú", <<"Ú">>>>,
    <<"û", <<"Û">>>>, <<"ü", <<"Ü">>>>, <<"ý", <<"Ý">>>>, <<"þ", <<"Þ">>>>,
    <<"ÿ", <<"U+0178">>>>, <<"ƀ", <<"U+0243">>>>, <<"ƃ", <<"Ƃ">>>>,
    <<"ƅ", <<"Ƅ">>>>, <<"ƈ", <<"Ƈ">>>>, <<"ƌ", <<"Ƌ">>>>, <<"ƒ", <<"Ƒ">>>>,
    <<"ƕ", <<"Ƕ">>>>, <<"ƙ", <<"Ƙ">>>>, <<"ƚ", <<"U+023D">>>>,
    <<"ƞ", <<"U+0220">>>>, <<"ơ", <<"Ơ">>>>, <<"ƣ", <<"Ƣ">>>>,
    <<"ƥ", <<"Ƥ">>>>, <<"ƨ", <<"Ƨ">>>>, <<"ƭ", <<"Ƭ">>>>, <<"ư", <<"Ư">>>>,
    <<"ƴ", <<"Ƴ">>>>, <<"ƶ", <<"Ƶ">>>>, <<"ƹ", <<"Ƹ">>>>, <<"ƽ", <<"Ƽ">>>>,
    <<"ƿ", <<"Ƿ">>>>, <<"ǅ", <<"Ǆ">>>>, <<"ǆ", <<"Ǆ">>>>, <<"ǈ", <<"Ǉ">>>>,
    <<"ǉ", <<"Ǉ">>>>, <<"ǋ", <<"Ǌ">>>>, <<"ǌ", <<"Ǌ">>>>, <<"ǎ", <<"Ǎ">>>>,
    <<"ǐ", <<"Ǐ">>>>, <<"ǒ", <<"Ǒ">>>>, <<"ǔ", <<"Ǔ">>>>, <<"ǖ", <<"Ǖ">>>>,
    <<"ǘ", <<"Ǘ">>>>, <<"ǚ", <<"Ǚ">>>>, <<"ǜ", <<"Ǜ">>>>, <<"ǝ", <<"Ǝ">>>>,
    <<"ǟ", <<"Ǟ">>>>, <<"ǡ", <<"Ǡ">>>>, <<"ǣ", <<"Ǣ">>>>, <<"ǥ", <<"Ǥ">>>>,
    <<"ǧ", <<"Ǧ">>>>, <<"ǩ", <<"Ǩ">>>>, <<"ǫ", <<"Ǫ">>>>, <<"ǭ", <<"Ǭ">>>>,
    <<"ǯ", <<"Ǯ">>>>, <<"ǰ", <<"J", "U+030C">>>>, <<"ǲ", <<"Ǳ">>>>,
    <<"ǳ", <<"Ǳ">>>>, <<"ǵ", <<"Ǵ">>>>, <<"ǹ", <<"Ǹ">>>>, <<"ǻ", <<"Ǻ">>>>,
    <<"ǽ", <<"Ǽ">>>>, <<"ǿ", <<"Ǿ">>>>, <<"ʀ", <<"Ʀ">>>>, <<"ʂ", <<"Ʂ">>>>,
    <<"ʃ", <<"Ʃ">>>>, <<"ʇ", <<"Ʇ">>>>, <<"ʈ", <<"Ʈ">>>>,
    <<"ʉ", <<"U+0244">>>>, <<"ʊ", <<"Ʊ">>>>, <<"ʋ", <<"Ʋ">>>>,
    <<"ʌ", <<"U+0245">>>>, <<"ʒ", <<"Ʒ">>>>, <<"ʝ", <<"Ʝ">>>>,
    <<"ʞ", <<"Ʞ">>>>, <<"ΐ", <<"Ι", "U+0308", "U+0301">>>>, <<"ά", <<"Ά">>>>,
    <<"έ", <<"Έ">>>>, <<"ή", <<"Ή">>>>, <<"ί", <<"Ί">>>>,
    <<"ΰ", <<"Υ", "U+0308", "U+0301">>>>, <<"α", <<"Α">>>>, <<"β", <<"Β">>>>,
    <<"γ", <<"Γ">>>>, <<"δ", <<"Δ">>>>, <<"ε", <<"Ε">>>>, <<"ζ", <<"Ζ">>>>,
    <<"η", <<"Η">>>>, <<"θ", <<"Θ">>>>, <<"ι", <<"Ι">>>>, <<"κ", <<"Κ">>>>,
    <<"λ", <<"Λ">>>>, <<"μ", <<"Μ">>>>, <<"ν", <<"Ν">>>>, <<"ξ", <<"Ξ">>>>,
    <<"ο", <<"Ο">>>>, <<"π", <<"Π">>>>, <<"ρ", <<"Ρ">>>>, <<"ς", <<"Σ">>>>,
    <<"σ", <<"Σ">>>>, <<"τ", <<"Τ">>>>, <<"υ", <<"Υ">>>>, <<"φ", <<"Φ">>>>,
    <<"χ", <<"Χ">>>>, <<"ψ", <<"Ψ">>>>, <<"ω", <<"Ω">>>>, <<"ϊ", <<"Ϊ">>>>,
    <<"ϋ", <<"Ϋ">>>>, <<"ό", <<"Ό">>>>, <<"ύ", <<"Ύ">>>>, <<"ώ", <<"Ώ">>>>,
    <<"ϐ", <<"Β">>>>, <<"ϑ", <<"Θ">>>>, <<"ϕ", <<"Φ">>>>, <<"ϖ", <<"Π">>>>,
    <<"ϗ", <<"Ϗ">>>>, <<"ϙ", <<"Ϙ">>>>, <<"ϛ", <<"Ϛ">>>>, <<"ϝ", <<"Ϝ">>>>,
    <<"ϟ", <<"Ϟ">>>>, <<"ϡ", <<"Ϡ">>>>, <<"ϣ", <<"Ϣ">>>>, <<"ϥ", <<"Ϥ">>>>,
    <<"ϧ", <<"Ϧ">>>>, <<"ϩ", <<"Ϩ">>>>, <<"ϫ", <<"Ϫ">>>>, <<"ϭ", <<"Ϭ">>>>,
    <<"ϯ", <<"Ϯ">>>>, <<"ϰ", <<"Κ">>>>, <<"ϱ", <<"Ρ">>>>, <<"ϲ", <<"Ϲ">>>>,
    <<"ϳ", <<"U+037F">>>>, <<"ϵ", <<"Ε">>>>, <<"ϸ", <<"Ϸ">>>>,
    <<"ϻ", <<"Ϻ">>>>, <<"ҁ", <<"Ҁ">>>>, <<"ҋ", <<"Ҋ">>>>, <<"ҍ", <<"Ҍ">>>>,
    <<"ҏ", <<"Ҏ">>>>, <<"ґ", <<"Ґ">>>>, <<"ғ", <<"Ғ">>>>, <<"ҕ", <<"Ҕ">>>>,
    <<"җ", <<"Җ">>>>, <<"ҙ", <<"Ҙ">>>>, <<"қ", <<"Қ">>>>, <<"ҝ", <<"Ҝ">>>>,
    <<"ҟ", <<"Ҟ">>>>, <<"ҡ", <<"Ҡ">>>>, <<"ң", <<"Ң">>>>, <<"ҥ", <<"Ҥ">>>>,
    <<"ҧ", <<"Ҧ">>>>, <<"ҩ", <<"Ҩ">>>>, <<"ҫ", <<"Ҫ">>>>, <<"ҭ", <<"Ҭ">>>>,
    <<"ү", <<"Ү">>>>, <<"ұ", <<"Ұ">>>>, <<"ҳ", <<"Ҳ">>>>, <<"ҵ", <<"Ҵ">>>>,
    <<"ҷ", <<"Ҷ">>>>, <<"ҹ", <<"Ҹ">>>>, <<"һ", <<"Һ">>>>, <<"ҽ", <<"Ҽ">>>>,
    <<"ҿ", <<"Ҿ">>>>, <<"ӂ", <<"Ӂ">>>>, <<"ӄ", <<"Ӄ">>>>, <<"ӆ", <<"Ӆ">>>>,
    <<"ӈ", <<"Ӈ">>>>, <<"ӊ", <<"Ӊ">>>>, <<"ӌ", <<"Ӌ">>>>, <<"ӎ", <<"Ӎ">>>>,
    <<"ӏ", <<"Ӏ">>>>, <<"ӑ", <<"Ӑ">>>>, <<"ӓ", <<"Ӓ">>>>, <<"ӕ", <<"Ӕ">>>>,
    <<"ӗ", <<"Ӗ">>>>, <<"ә", <<"Ә">>>>, <<"ӛ", <<"Ӛ">>>>, <<"ӝ", <<"Ӝ">>>>,
    <<"ӟ", <<"Ӟ">>>>, <<"ӡ", <<"Ӡ">>>>, <<"ӣ", <<"Ӣ">>>>, <<"ӥ", <<"Ӥ">>>>,
    <<"ӧ", <<"Ӧ">>>>, <<"ө", <<"Ө">>>>, <<"ӫ", <<"Ӫ">>>>, <<"ӭ", <<"Ӭ">>>>,
    <<"ӯ", <<"Ӯ">>>>, <<"ӱ", <<"Ӱ">>>>, <<"ӳ", <<"Ӳ">>>>, <<"ӵ", <<"Ӵ">>>>,
    <<"ӷ", <<"Ӷ">>>>, <<"ӹ", <<"Ӹ">>>>, <<"ӻ", <<"Ӻ">>>>, <<"ӽ", <<"Ӽ">>>>,
    <<"ӿ", <<"Ӿ">>>>, <<"ր", <<"U+0550">>>>, <<"ց", <<"U+0551">>>>,
    <<"ւ", <<"U+0552">>>>, <<"փ", <<"U+0553">>>>, <<"ք", <<"U+0554">>>>,
    <<"օ", <<"U+0555">>>>, <<"ֆ", <<"U+0556">>>>,
    <<"և", <<"U+0535", "U+0552">>>>, <<"ა", <<"Ა">>>>, <<"ბ", <<"Ბ">>>>,
    <<"გ", <<"Გ">>>>, <<"დ", <<"Დ">>>>, <<"ე", <<"Ე">>>>, <<"ვ", <<"Ვ">>>>,
    <<"ზ", <<"Ზ">>>>, <<"თ", <<"Თ">>>>, <<"ი", <<"Ი">>>>, <<"კ", <<"Კ">>>>,
    <<"ლ", <<"Ლ">>>>, <<"მ", <<"Მ">>>>, <<"ნ", <<"Ნ">>>>, <<"ო", <<"Ო">>>>,
    <<"პ", <<"Პ">>>>, <<"ჟ", <<"Ჟ">>>>, <<"რ", <<"Რ">>>>, <<"ს", <<"Ს">>>>,
    <<"ტ", <<"Ტ">>>>, <<"უ", <<"Უ">>>>, <<"ფ", <<"Ფ">>>>, <<"ქ", <<"Ქ">>>>,
    <<"ღ", <<"Ღ">>>>, <<"ყ", <<"Ყ">>>>, <<"შ", <<"Შ">>>>, <<"ჩ", <<"Ჩ">>>>,
    <<"ც", <<"Ც">>>>, <<"ძ", <<"Ძ">>>>, <<"წ", <<"Წ">>>>, <<"ჭ", <<"Ჭ">>>>,
    <<"ხ", <<"Ხ">>>>, <<"ჯ", <<"Ჯ">>>>, <<"ჰ", <<"Ჰ">>>>, <<"ჱ", <<"Ჱ">>>>,
    <<"ჲ", <<"Ჲ">>>>, <<"ჳ", <<"Ჳ">>>>, <<"ჴ", <<"Ჴ">>>>, <<"ჵ", <<"Ჵ">>>>,
    <<"ჶ", <<"Ჶ">>>>, <<"ჷ", <<"Ჷ">>>>, <<"ჸ", <<"Ჸ">>>>, <<"ჹ", <<"Ჹ">>>>,
    <<"ჺ", <<"Ჺ">>>>, <<"ჽ", <<"Ჽ">>>>, <<"ჾ", <<"Ჾ">>>>, <<"ჿ", <<"Ჿ">>>>,
    <<"ᏸ", <<"Ᏸ">>>>, <<"ᏹ", <<"Ᏹ">>>>, <<"ᏺ", <<"Ᏺ">>>>, <<"ᏻ", <<"Ᏻ">>>>,
    <<"ᏼ", <<"Ᏼ">>>>, <<"ᏽ", <<"Ᏽ">>>>, <<"ᲀ", <<"U+0412">>>>,
    <<"ᲁ", <<"U+0414">>>>, <<"ᲂ", <<"U+041E">>>>, <<"ᲃ", <<"U+0421">>>>,
    <<"ᲄ", <<"U+0422">>>>, <<"ᲅ", <<"U+0422">>>>, <<"ᲆ", <<"U+042A">>>>,
    <<"ᲇ", <<"U+0462">>>>, <<"ᲈ", <<"U+A64A">>>>, <<"ᶎ", <<"Ᶎ">>>>,
    <<"ẁ", <<"Ẁ">>>>, <<"ẃ", <<"Ẃ">>>>, <<"ẅ", <<"Ẅ">>>>, <<"ẇ", <<"Ẇ">>>>,
    <<"ẉ", <<"Ẉ">>>>, <<"ẋ", <<"Ẋ">>>>, <<"ẍ", <<"Ẍ">>>>, <<"ẏ", <<"Ẏ">>>>,
    <<"ẑ", <<"Ẑ">>>>, <<"ẓ", <<"Ẓ">>>>, <<"ẕ", <<"Ẕ">>>>,
    <<"ẖ", <<"H", "U+0331">>>>, <<"ẗ", <<"T", "U+0308">>>>,
    <<"ẘ", <<"W", "U+030A">>>>, <<"ẙ", <<"Y", "U+030A">>>>,
    <<"ẚ", <<"A", "ʾ">>>>, <<"ẛ", <<"U+1E60">>>>, <<"ạ", <<"Ạ">>>>,
    <<"ả", <<"Ả">>>>, <<"ấ", <<"Ấ">>>>, <<"ầ", <<"Ầ">>>>, <<"ẩ", <<"Ẩ">>>>,
    <<"ẫ", <<"Ẫ">>>>, <<"ậ", <<"Ậ">>>>, <<"ắ", <<"Ắ">>>>, <<"ằ", <<"Ằ">>>>,
    <<"ẳ", <<"Ẳ">>>>, <<"ẵ", <<"Ẵ">>>>, <<"ặ", <<"Ặ">>>>, <<"ẹ", <<"Ẹ">>>>,
    <<"ẻ", <<"Ẻ">>>>, <<"ẽ", <<"Ẽ">>>>, <<"ế", <<"Ế">>>>, <<"ề", <<"Ề">>>>,
    <<"ể", <<"Ể">>>>, <<"ễ", <<"Ễ">>>>, <<"ệ", <<"Ệ">>>>, <<"ỉ", <<"Ỉ">>>>,
    <<"ị", <<"Ị">>>>, <<"ọ", <<"Ọ">>>>, <<"ỏ", <<"Ỏ">>>>, <<"ố", <<"Ố">>>>,
    <<"ồ", <<"Ồ">>>>, <<"ổ", <<"Ổ">>>>, <<"ỗ", <<"Ỗ">>>>, <<"ộ", <<"Ộ">>>>,
    <<"ớ", <<"Ớ">>>>, <<"ờ", <<"Ờ">>>>, <<"ở", <<"Ở">>>>, <<"ỡ", <<"Ỡ">>>>,
    <<"ợ", <<"Ợ">>>>, <<"ụ", <<"Ụ">>>>, <<"ủ", <<"Ủ">>>>, <<"ứ", <<"Ứ">>>>,
    <<"ừ", <<"Ừ">>>>, <<"ử", <<"Ử">>>>, <<"ữ", <<"Ữ">>>>, <<"ự", <<"Ự">>>>,
    <<"ỳ", <<"Ỳ">>>>, <<"ỵ", <<"Ỵ">>>>, <<"ỷ", <<"Ỷ">>>>, <<"ỹ", <<"Ỹ">>>>,
    <<"ỻ", <<"Ỻ">>>>, <<"ỽ", <<"Ỽ">>>>, <<"ỿ", <<"Ỿ">>>>,
    <<"ᾀ", <<"U+1F08", "Ι">>>>, <<"ᾁ", <<"U+1F09", "Ι">>>>,
    <<"ᾂ", <<"U+1F0A", "Ι">>>>, <<"ᾃ", <<"U+1F0B", "Ι">>>>,
    <<"ᾄ", <<"U+1F0C", "Ι">>>>, <<"ᾅ", <<"U+1F0D", "Ι">>>>,
    <<"ᾆ", <<"U+1F0E", "Ι">>>>, <<"ᾇ", <<"U+1F0F", "Ι">>>>,
    <<"ᾈ", <<"U+1F08", "Ι">>>>, <<"ᾉ", <<"U+1F09", "Ι">>>>,
    <<"ᾊ", <<"U+1F0A", "Ι">>>>, <<"ᾋ", <<"U+1F0B", "Ι">>>>,
    <<"ᾌ", <<"U+1F0C", "Ι">>>>, <<"ᾍ", <<"U+1F0D", "Ι">>>>,
    <<"ᾎ", <<"U+1F0E", "Ι">>>>, <<"ᾏ", <<"U+1F0F", "Ι">>>>,
    <<"ᾐ", <<"U+1F28", "Ι">>>>, <<"ᾑ", <<"U+1F29", "Ι">>>>,
    <<"ᾒ", <<"U+1F2A", "Ι">>>>, <<"ᾓ", <<"U+1F2B", "Ι">>>>,
    <<"ᾔ", <<"U+1F2C", "Ι">>>>, <<"ᾕ", <<"U+1F2D", "Ι">>>>,
    <<"ᾖ", <<"U+1F2E", "Ι">>>>, <<"ᾗ", <<"U+1F2F", "Ι">>>>,
    <<"ᾘ", <<"U+1F28", "Ι">>>>, <<"ᾙ", <<"U+1F29", "Ι">>>>,
    <<"ᾚ", <<"U+1F2A", "Ι">>>>, <<"ᾛ", <<"U+1F2B", "Ι">>>>,
    <<"ᾜ", <<"U+1F2C", "Ι">>>>, <<"ᾝ", <<"U+1F2D", "Ι">>>>,
    <<"ᾞ", <<"U+1F2E", "Ι">>>>, <<"ᾟ", <<"U+1F2F", "Ι">>>>,
    <<"ᾠ", <<"U+1F68", "Ι">>>>, <<"ᾡ", <<"U+1F69", "Ι">>>>,
    <<"ᾢ", <<"U+1F6A", "Ι">>>>, <<"ᾣ", <<"U+1F6B", "Ι">>>>,
    <<"ᾤ", <<"U+1F6C", "Ι">>>>, <<"ᾥ", <<"U+1F6D", "Ι">>>>,
    <<"ᾦ", <<"U+1F6E", "Ι">>>>, <<"ᾧ", <<"U+1F6F", "Ι">>>>,
    <<"ᾨ", <<"U+1F68", "Ι">>>>, <<"ᾩ", <<"U+1F69", "Ι">>>>,
    <<"ᾪ", <<"U+1F6A", "Ι">>>>, <<"ᾫ", <<"U+1F6B", "Ι">>>>,
    <<"ᾬ", <<"U+1F6C", "Ι">>>>, <<"ᾭ", <<"U+1F6D", "Ι">>>>,
    <<"ᾮ", <<"U+1F6E", "Ι">>>>, <<"ᾯ", <<"U+1F6F", "Ι">>>>, <<"ᾰ", <<"Ᾰ">>>>,
    <<"ᾱ", <<"Ᾱ">>>>, <<"ᾲ", <<"Ὰ", "Ι">>>>, <<"ᾳ", <<"Α", "Ι">>>>,
    <<"ᾴ", <<"Ά", "Ι">>>>, <<"ᾶ", <<"Α", "U+0342">>>>,
    <<"ᾷ", <<"Α", "U+0342", "Ι">>>>, <<"ᾼ", <<"Α", "Ι">>>>, <<"ι", <<"Ι">>>>,
    <<"ῂ", <<"Ὴ", "Ι">>>>, <<"ῃ", <<"Η", "Ι">>>>, <<"ῄ", <<"Ή", "Ι">>>>,
    <<"ῆ", <<"Η", "U+0342">>>>, <<"ῇ", <<"Η", "U+0342", "Ι">>>>,
    <<"ῌ", <<"Η", "Ι">>>>, <<"ῐ", <<"Ῐ">>>>, <<"ῑ", <<"Ῑ">>>>,
    <<"ῒ", <<"Ι", "U+0308", "U+0300">>>>,
    <<"ΐ", <<"Ι", "U+0308", "U+0301">>>>, <<"ῖ", <<"Ι", "U+0342">>>>,
    <<"ῗ", <<"Ι", "U+0308", "U+0342">>>>, <<"ῠ", <<"Ῠ">>>>, <<"ῡ", <<"Ῡ">>>>,
    <<"ῢ", <<"Υ", "U+0308", "U+0300">>>>,
    <<"ΰ", <<"Υ", "U+0308", "U+0301">>>>, <<"ῤ", <<"Ρ", "U+0313">>>>,
    <<"ῥ", <<"Ῥ">>>>, <<"ῦ", <<"Υ", "U+0342">>>>,
    <<"ῧ", <<"Υ", "U+0308", "U+0342">>>>, <<"ῲ", <<"Ὼ", "Ι">>>>,
    <<"ῳ", <<"Ω", "Ι">>>>, <<"ῴ", <<"Ώ", "Ι">>>>, <<"ῶ", <<"Ω", "U+0342">>>>,
    <<"ῷ", <<"Ω", "U+0342", "Ι">>>>, <<"ῼ", <<"Ω", "Ι">>>>, <<"ↄ", <<"Ↄ">>>>,
    <<"ⓐ", <<"Ⓐ">>>>, <<"ⓑ", <<"Ⓑ">>>>, <<"ⓒ", <<"Ⓒ">>>>, <<"ⓓ", <<"Ⓓ">>>>,
    <<"ⓔ", <<"Ⓔ">>>>, <<"ⓕ", <<"Ⓕ">>>>, <<"ⓖ", <<"Ⓖ">>>>, <<"ⓗ", <<"Ⓗ">>>>,
    <<"ⓘ", <<"Ⓘ">>>>, <<"ⓙ", <<"Ⓙ">>>>, <<"ⓚ", <<"Ⓚ">>>>, <<"ⓛ", <<"Ⓛ">>>>,
    <<"ⓜ", <<"Ⓜ">>>>, <<"ⓝ", <<"Ⓝ">>>>, <<"ⓞ", <<"Ⓞ">>>>, <<"ⓟ", <<"Ⓟ">>>>,
    <<"ⓠ", <<"Ⓠ">>>>, <<"ⓡ", <<"Ⓡ">>>>, <<"ⓢ", <<"Ⓢ">>>>, <<"ⓣ", <<"Ⓣ">>>>,
    <<"ⓤ", <<"Ⓤ">>>>, <<"ⓥ", <<"Ⓥ">>>>, <<"ⓦ", <<"Ⓦ">>>>, <<"ⓧ", <<"Ⓧ">>>>,
    <<"ⓨ", <<"Ⓨ">>>>, <<"ⓩ", <<"Ⓩ">>>>, <<"ⲁ", <<"Ⲁ">>>>, <<"ⲃ", <<"Ⲃ">>>>,
    <<"ⲅ", <<"Ⲅ">>>>, <<"ⲇ", <<"Ⲇ">>>>, <<"ⲉ", <<"Ⲉ">>>>, <<"ⲋ", <<"Ⲋ">>>>,
    <<"ⲍ", <<"Ⲍ">>>>, <<"ⲏ", <<"Ⲏ">>>>, <<"ⲑ", <<"Ⲑ">>>>, <<"ⲓ", <<"Ⲓ">>>>,
    <<"ⲕ", <<"Ⲕ">>>>, <<"ⲗ", <<"Ⲗ">>>>, <<"ⲙ", <<"Ⲙ">>>>, <<"ⲛ", <<"Ⲛ">>>>,
    <<"ⲝ", <<"Ⲝ">>>>, <<"ⲟ", <<"Ⲟ">>>>, <<"ⲡ", <<"Ⲡ">>>>, <<"ⲣ", <<"Ⲣ">>>>,
    <<"ⲥ", <<"Ⲥ">>>>, <<"ⲧ", <<"Ⲧ">>>>, <<"ⲩ", <<"Ⲩ">>>>, <<"ⲫ", <<"Ⲫ">>>>,
    <<"ⲭ", <<"Ⲭ">>>>, <<"ⲯ", <<"Ⲯ">>>>, <<"ⲱ", <<"Ⲱ">>>>, <<"ⲳ", <<"Ⲳ">>>>,
    <<"ⲵ", <<"Ⲵ">>>>, <<"ⲷ", <<"Ⲷ">>>>, <<"ⲹ", <<"Ⲹ">>>>, <<"ⲻ", <<"Ⲻ">>>>,
    <<"ⲽ", <<"Ⲽ">>>>, <<"ⲿ", <<"Ⲿ">>>>, <<"ⳁ", <<"Ⳁ">>>>, <<"ⳃ", <<"Ⳃ">>>>,
    <<"ⳅ", <<"Ⳅ">>>>, <<"ⳇ", <<"Ⳇ">>>>, <<"ⳉ", <<"Ⳉ">>>>, <<"ⳋ", <<"Ⳋ">>>>,
    <<"ⳍ", <<"Ⳍ">>>>, <<"ⳏ", <<"Ⳏ">>>>, <<"ⳑ", <<"Ⳑ">>>>, <<"ⳓ", <<"Ⳓ">>>>,
    <<"ⳕ", <<"Ⳕ">>>>, <<"ⳗ", <<"Ⳗ">>>>, <<"ⳙ", <<"Ⳙ">>>>, <<"ⳛ", <<"Ⳛ">>>>,
    <<"ⳝ", <<"Ⳝ">>>>, <<"ⳟ", <<"Ⳟ">>>>, <<"ⳡ", <<"Ⳡ">>>>, <<"ⳣ", <<"Ⳣ">>>>,
    <<"ⳬ", <<"Ⳬ">>>>, <<"ⳮ", <<"Ⳮ">>>>, <<"ⳳ", <<"Ⳳ">>>>, <<"ꚁ", <<"Ꚁ">>>>,
    <<"ꚃ", <<"Ꚃ">>>>, <<"ꚅ", <<"Ꚅ">>>>, <<"ꚇ", <<"Ꚇ">>>>, <<"ꚉ", <<"Ꚉ">>>>,
    <<"ꚋ", <<"Ꚋ">>>>, <<"ꚍ", <<"Ꚍ">>>>, <<"ꚏ", <<"Ꚏ">>>>, <<"ꚑ", <<"Ꚑ">>>>,
    <<"ꚓ", <<"Ꚓ">>>>, <<"ꚕ", <<"Ꚕ">>>>, <<"ꚗ", <<"Ꚗ">>>>, <<"ꚙ", <<"Ꚙ">>>>,
    <<"ꚛ", <<"Ꚛ">>>>, <<"ꞁ", <<"Ꞁ">>>>, <<"ꞃ", <<"Ꞃ">>>>, <<"ꞅ", <<"Ꞅ">>>>,
    <<"ꞇ", <<"Ꞇ">>>>, <<"ꞌ", <<"Ꞌ">>>>, <<"ꞑ", <<"Ꞑ">>>>, <<"ꞓ", <<"Ꞓ">>>>,
    <<"ꞔ", <<"Ꞔ">>>>, <<"ꞗ", <<"Ꞗ">>>>, <<"ꞙ", <<"Ꞙ">>>>, <<"ꞛ", <<"Ꞛ">>>>,
    <<"ꞝ", <<"Ꞝ">>>>, <<"ꞟ", <<"Ꞟ">>>>, <<"ꞡ", <<"Ꞡ">>>>, <<"ꞣ", <<"Ꞣ">>>>,
    <<"ꞥ", <<"Ꞥ">>>>, <<"ꞧ", <<"Ꞧ">>>>, <<"ꞩ", <<"Ꞩ">>>>, <<"ꞵ", <<"Ꞵ">>>>,
    <<"ꞷ", <<"Ꞷ">>>>, <<"ꞹ", <<"Ꞹ">>>>, <<"ꞻ", <<"Ꞻ">>>>, <<"ꞽ", <<"Ꞽ">>>>,
    <<"ꞿ", <<"Ꞿ">>>>, <<"ꟁ", <<"Ꟁ">>>>, <<"ꟃ", <<"Ꟃ">>>>, <<"ꟈ", <<"Ꟈ">>>>,
    <<"ꟊ", <<"Ꟊ">>>>, <<"ꟑ", <<"Ꟑ">>>>, <<"ꟗ", <<"Ꟗ">>>>, <<"ꟙ", <<"Ꟙ">>>>,
    <<"ꟶ", <<"Ꟶ">>>>, <<"ꮀ", <<"Ꮀ">>>>, <<"ꮁ", <<"Ꮁ">>>>, <<"ꮂ", <<"Ꮂ">>>>,
    <<"ꮃ", <<"Ꮃ">>>>, <<"ꮄ", <<"Ꮄ">>>>, <<"ꮅ", <<"Ꮅ">>>>, <<"ꮆ", <<"Ꮆ">>>>,
    <<"ꮇ", <<"Ꮇ">>>>, <<"ꮈ", <<"Ꮈ">>>>, <<"ꮉ", <<"Ꮉ">>>>, <<"ꮊ", <<"Ꮊ">>>>,
    <<"ꮋ", <<"Ꮋ">>>>, <<"ꮌ", <<"Ꮌ">>>>, <<"ꮍ", <<"Ꮍ">>>>, <<"ꮎ", <<"Ꮎ">>>>,
    <<"ꮏ", <<"Ꮏ">>>>, <<"ꮐ", <<"Ꮐ">>>>, <<"ꮑ", <<"Ꮑ">>>>, <<"ꮒ", <<"Ꮒ">>>>,
    <<"ꮓ", <<"Ꮓ">>>>, <<"ꮔ", <<"Ꮔ">>>>, <<"ꮕ", <<"Ꮕ">>>>, <<"ꮖ", <<"Ꮖ">>>>,
    <<"ꮗ", <<"Ꮗ">>>>, <<"ꮘ", <<"Ꮘ">>>>, <<"ꮙ", <<"Ꮙ">>>>, <<"ꮚ", <<"Ꮚ">>>>,
    <<"ꮛ", <<"Ꮛ">>>>, <<"ꮜ", <<"Ꮜ">>>>, <<"ꮝ", <<"Ꮝ">>>>, <<"ꮞ", <<"Ꮞ">>>>,
    <<"ꮟ", <<"Ꮟ">>>>, <<"ꮠ", <<"Ꮠ">>>>, <<"ꮡ", <<"Ꮡ">>>>, <<"ꮢ", <<"Ꮢ">>>>,
    <<"ꮣ", <<"Ꮣ">>>>, <<"ꮤ", <<"Ꮤ">>>>, <<"ꮥ", <<"Ꮥ">>>>, <<"ꮦ", <<"Ꮦ">>>>,
    <<"ꮧ", <<"Ꮧ">>>>, <<"ꮨ", <<"Ꮨ">>>>, <<"ꮩ", <<"Ꮩ">>>>, <<"ꮪ", <<"Ꮪ">>>>,
    <<"ꮫ", <<"Ꮫ">>>>, <<"ꮬ", <<"Ꮬ">>>>, <<"ꮭ", <<"Ꮭ">>>>, <<"ꮮ", <<"Ꮮ">>>>,
    <<"ꮯ", <<"Ꮯ">>>>, <<"ꮰ", <<"Ꮰ">>>>, <<"ꮱ", <<"Ꮱ">>>>, <<"ꮲ", <<"Ꮲ">>>>,
    <<"ꮳ", <<"Ꮳ">>>>, <<"ꮴ", <<"Ꮴ">>>>, <<"ꮵ", <<"Ꮵ">>>>, <<"ꮶ", <<"Ꮶ">>>>,
    <<"ꮷ", <<"Ꮷ">>>>, <<"ꮸ", <<"Ꮸ">>>>, <<"ꮹ", <<"Ꮹ">>>>, <<"ꮺ", <<"Ꮺ">>>>,
    <<"ꮻ", <<"Ꮻ">>>>, <<"ꮼ", <<"Ꮼ">>>>, <<"ꮽ", <<"Ꮽ">>>>, <<"ꮾ", <<"Ꮾ">>>>,
    <<"ꮿ", <<"Ꮿ">>>> >>

UpperOf == [c \in {UpperTable[i][1] : i \in DOMAIN UpperTable} |->
              UpperTable[CHOOSE i \in DOMAIN UpperTable : UpperTable[i][1] = c][2]]

RECURSIVE Upper(_)
\* str.upper()
Upper(s) ==
    IF s = <<>> THEN <<>>
    ELSE (IF Head(s) \in DOMAIN UpperOf THEN UpperOf[Head(s)] ELSE <<Head(s)>>) \o Upper(Tail(s))

\* The number parsers match the words "inf", "infinity" and "nan" without
\* regard to the case of the ASCII letters; no other character matches.
Lowers == <<"a", "b", "c", "d", "e", "f", "g", "h", "i", "j", "k", "l", "m",
            "n", "o", "p", "q", "r", "s", "t", "u", "v", "w", "x", "y", "z">>
Uppers == <<"A", "B", "C", "D", "E", "F", "G", "H", "I", "J", "K", "L", "M",
            "N", "O", "P", "Q", "R", "S", "T", "U", "V", "W", "X", "Y", "Z">>

LowerOf == [c \in {Uppers[i] : i \in 1..26} |-> Lowers[CHOOSE i \in 1..26 : Uppers[i] = c]]

AsciiLower(s) == [i \in 1..Len(s) |-> IF s[i] \in DOMAIN LowerOf THEN LowerOf[s[i]] ELSE s[i]]

RECURSIVE Str(_)
\* the Python str of a character sequence
Str(s) == IF s = <<>> THEN "" ELSE Head(s) \o Str(Tail(s))

-----------------------------------------------------------------------------
(* Redis server: GET, SETEX, DEL and KEYS on the key space, keys expire at  *)
(* exp                                                                      *)

Nil == [nil |-> TRUE]

RedisGet(s, k, t) == IF k \in DOMAIN s /\ t < s[k].exp THEN s[k].val ELSE Nil

RedisSetex(s, k, ttl, v, t) ==
    [x \in DOMAIN s \cup {k} |-> IF x = k THEN [val |-> v, exp |-> t + ttl] ELSE s[x]]

\* keys whose expiry has passed are gone
Live(s, t) == [k \in {x \in DOMAIN s : t < s[x].exp} |-> s[k]]

\* DEL key [key ...]: the keys are removed; the reply is how many there were
RedisDel(s, keys, t) ==
    [count |-> Cardinality({k \in keys : k \in DOMAIN s /\ t < s[k].exp}),
     store |-> [k \in DOMAIN s \ keys |-> s[k]]]

-----------------------------------------------------------------------------
(* CacheManager (app/core/cache.py) *)

key_prefix == "insightfinance:"

_generate_key(key, namespace) ==
    IF namespace # "" THEN key_prefix \o namespace \o ":" \o key
    ELSE key_prefix \o key

\* json.dumps of a dict / list / str / number; json.loads of the bytes read back
Serialize(value) == [fmt |-> "json", obj |-> value]
Deserialize(raw) == raw.obj

\* CacheManager.get: any exception of the store is caught and gives default
CacheManager_get(key, namespace, default) ==
    IF ~redis_up THEN default
    ELSE LET value == RedisGet(store, _generate_key(key, namespace), now)
         IN IF value = Nil THEN default ELSE Deserialize(value)

\* the ttl handed to SETEX
EffectiveTtl(ttl) == IntOr(ttl, settings.CACHE_TTL)

\* CacheManager.set: [ok, store]; SETEX refuses a non-positive expire time and
\* an unreachable server raises, both caught and reported as False
CacheManager_set(key, value, ttl, namespace) ==
    IF ~redis_up \/ EffectiveTtl(ttl) <= 0
    THEN [ok |-> FALSE, store |-> store]
    ELSE [ok |-> TRUE,
          store |-> RedisSetex(store, _generate_key(key, namespace), EffectiveTtl(ttl),
                               Serialize(value), now)]

\* CacheManager.delete: [ok, store]; True when the key was there, False when
\* it was not or the server cannot be reached
CacheManager_delete(key, namespace) ==
    IF ~redis_up THEN [ok |-> FALSE, store |-> store]
    ELSE LET r == RedisDel(store, {_generate_key(key, namespace)}, now)
         IN [ok |-> r.count > 0, store |-> r.store]

\* redis.keys(pattern) for pattern = _generate_key("*", namespace): "*" stands
\* for any run of characters, so a key is found when it is
\* _generate_key(tail, namespace) for some text tail; tails are the texts
\* that follow the prefix in the keys in use
RedisKeys(s, namespace, tails, t) ==
    {k \in DOMAIN s : t < s[k].exp /\ \E tail \in tails : k = _generate_key(tail, namespace)}

\* CacheManager.clear_namespace up to the reply of KEYS, the keys it was
\* given: none when the server cannot be reached
clear_namespace(namespace, tails) ==
    IF ~redis_up THEN {} ELSE RedisKeys(store, namespace, tails, now)

\* CacheManager.clear_namespace from the reply of DEL for the keys that KEYS
\* gave: [deleted, store]; 0 when the server cannot be reached
clear_namespace_delete(keys) ==
    IF ~redis_up THEN [deleted |-> 0, store |-> store]
    ELSE LET r == RedisDel(store, keys, now)
         IN [deleted |-> r.count, store |-> r.store]

\* get_cache(): raises RuntimeError when init_cache() has not succeeded
get_cache_raises == cache_manager = "None"

\* cache_price_data / get_cached_price_data: [raised, ok, store] / [raised, value]
SetOutcome(r) == [raised |-> FALSE, ok |-> r.ok, store |-> r.store]

cache_price_data(symbol, data, ttl) ==
    IF get_cache_raises THEN [raised |-> TRUE, ok |-> FALSE, store |-> store]
    ELSE SetOutcome(CacheManager_set("price:" \o symbol, data, PyInt(ttl), "market_data"))

\* the read of a price entry through the namespace of the indicators
get_cached_price_data_technical(symbol) ==
    IF get_cache_raises THEN [raised |-> TRUE, value |-> None]
    ELSE [raised |-> FALSE, value |-> CacheManager_get("price:" \o symbol, "technical", None)]

get_cached_price_data(symbol) ==
    IF get_cache_raises THEN [raised |-> TRUE, value |-> None]
    ELSE [raised |-> FALSE, value |-> CacheManager_get("price:" \o symbol, "market_data", None)]

cache_technical_indicator(symbol, indicator, data, ttl) ==
    IF get_cache_raises THEN [raised |-> TRUE, ok |-> FALSE, store |-> store]
    ELSE LET r == CacheManager_set("indicator:" \o symbol \o ":" \o indicator, data,
                                   PyInt(ttl), "technical")
         IN [raised |-> FALSE, ok |-> r.ok, store |-> r.store]

get_cached_indicator(symbol, indicator) ==
    IF get_cache_raises THEN [raised |-> TRUE, value |-> None]
    ELSE [raised |-> FALSE,
          value |-> CacheManager_get("indicator:" \o symbol \o ":" \o indicator, "technical", None)]

-----------------------------------------------------------------------------
(* Text of numbers, as the providers send them *)

\* The decimal digits of every script: int() and float() read each of them
\* as the ASCII digit of the same value.  One row per script, 0 to 9.
DigitRows == <<
    <<"0", "1", "2", "3", "4", "5", "6", "7", "8", "9">>,
    <<"۰", "۱", "۲", "۳", "۴", "۵", "۶", "۷", "۸", "۹">>,
    <<"߀", "߁", "߂", "߃", "߄", "߅", "߆", "߇", "߈", "߉">>,
    <<"০", "১", "২", "৩", "৪", "৫", "৬", "৭", "৮", "৯">>,
    <<"૦", "૧", "૨", "૩", "૪", "૫", "૬", "૭", "૮", "૯">>,
    <<"௦", "௧", "௨", "௩", "௪", "௫", "௬", "௭", "௮", "௯">>,
    <<"೦", "೧", "೨", "೩", "೪", "೫", "೬", "೭", "೮", "೯">>,
    <<"෦", "෧", "෨", "෩", "෪", "෫", "෬", "෭", "෮", "෯">>,
    <<"໐", "໑", "໒", "໓", "໔", "໕", "໖", "໗", "໘", "໙">>,
    <<"႐", "႑", "႒", "႓", "႔", "႕", "႖", "႗", "႘", "႙">>,
    <<"០", "១", "២", "៣", "៤", "៥", "៦", "៧", "៨", "៩">>,
    <<"᧐", "᧑", "᧒", "᧓", "᧔", "᧕", "᧖", "᧗", "᧘", "᧙">>,
    <<"᪀", "᪁", "᪂", "᪃", "᪄", "᪅", "᪆", "᪇", "᪈", "᪉">>,
    <<"᪐", "᪑", "᪒", "᪓", "᪔", "᪕", "᪖", "᪗", "᪘", "᪙">>,
    <<"᮰", "᮱", "᮲", "᮳", "᮴", "᮵", "᮶", "᮷", "᮸", "᮹">>,
    <<"꣐", "꣑", "꣒", "꣓", "꣔", "꣕", "꣖", "꣗", "꣘", "꣙">>,
    <<"꧐", "꧑", "꧒", "꧓", "꧔", "꧕", "꧖", "꧗", "꧘", "꧙">>,
    <<"꧰", "꧱", "꧲", "꧳", "꧴", "꧵", "꧶", "꧷", "꧸", "꧹">>,
    <<"꯰", "꯱", "꯲", "꯳", "꯴", "꯵", "꯶", "꯷", "꯸", "꯹">> >>

DigitOf == [c \in {DigitRows[r][d] : r \in DOMAIN DigitRows, d \in 1..10} |->
              (CHOOSE d \in 1..10 : \E r \in DOMAIN DigitRows : DigitRows[r][d] = c) - 1]

CharOf == <<"1", "2", "3", "4", "5", "6", "7", "8", "9">>

RECURSIVE DigitsValue(_)
DigitsValue(s) == IF s = <<>> THEN 0 ELSE 10 * DigitsValue(SubSeq(s, 1, Len(s) - 1)) + DigitOf[s[Len(s)]]

RECURSIVE Pow10(_)
Pow10(n) == IF n = 0 THEN 1 ELSE 10 * Pow10(n - 1)

\* the characters int() and float() skip at both ends of the text: the six
\* ASCII ones (space, tab, line feed, vertical tab, form feed, carriage
\* return) and the Unicode spaces NEXT LINE, NO-BREAK SPACE and OGHAM SPACE
\* MARK.  The separators U+001C to U+001F are not skipped.
Whitespace == {" ", "\t", "\n", "", "\f", "\r", "", " ", " "}

RECURSIVE StripSpace(_)
StripSpace(s) ==
    IF s = <<>> THEN s
    ELSE IF s[1] \in Whitespace THEN StripSpace(Tail(s))
    ELSE IF s[Len(s)] \in Whitespace THEN StripSpace(SubSeq(s, 1, Len(s) - 1))
    ELSE s

\* digits, with single underscores allowed between digits
DigitRun(s) ==
    /\ s # <<>>
    /\ s[1] \in DOMAIN DigitOf /\ s[Len(s)] \in DOMAIN DigitOf
    /\ \A i \in 1..Len(s) : s[i] \in DOMAIN DigitOf \cup {"_"}
    /\ \A i \in 1..(Len(s) - 1) : ~(s[i] = "_" /\ s[i + 1] = "_")

IsDigit(c) == c \in DOMAIN DigitOf
RunValue(s) == DigitsValue(SelectSeq(s, IsDigit))
RunLength(s) == Len(SelectSeq(s, IsDigit))

SignOf(s) == IF s # <<>> /\ s[1] = "-" THEN -1 ELSE 1
Unsigned(s) == IF s # <<>> /\ s[1] \in {"+", "-"} THEN Tail(s) ELSE s

\* the place of the first character of s that is in set, 0 when there is none
First(s, set) ==
    IF \E i \in 1..Len(s) : s[i] \in set
    THEN CHOOSE i \in 1..Len(s) : s[i] \in set /\ \A j \in 1..(i - 1) : s[j] \notin set
    ELSE 0

\* int(text): [ok, val]; ok = FALSE is ValueError
ParseIntStripped(s) ==
    IF DigitRun(Unsigned(s)) THEN [ok |-> TRUE, val |-> Num(SignOf(s) * RunValue(Unsigned(s)))]
    ELSE [ok |-> FALSE, val |-> Num(0)]

ParseInt(text) == ParseIntStripped(StripSpace(text))

\* float(text): [ok, val]; ok = FALSE is ValueError.  The text is white
\* space, a sign, then "inf", "infinity" or "nan" in any case or a decimal
\* number: digits, a point and digits (one of the two digit runs may be
\* missing), and an exponent.

\* the place of the exponent mark in the unsigned text u, 0 when there is none
ExponentMark(u) == First(u, {"e", "E"})
Mantissa(u, e) == IF e = 0 THEN u ELSE SubSeq(u, 1, e - 1)
Exponent(u, e) == IF e = 0 THEN <<>> ELSE SubSeq(u, e + 1, Len(u))

\* the digit runs before and after the point, at place dot of the mantissa m
Whole(m, dot) == IF dot = 0 THEN m ELSE SubSeq(m, 1, dot - 1)
Fraction(m, dot) == IF dot = 0 THEN <<>> ELSE SubSeq(m, dot + 1, Len(m))

\* the number written by a sign, a whole part and a fraction part
Decimal(sign, whole, fraction) ==
    Frac(sign * (RunValue(whole) * Pow10(RunLength(fraction)) + RunValue(fraction)),
         Pow10(RunLength(fraction)))

\* digits times ten to the power written by exponent
Scaled(digits, exponent) ==
    IF SignOf(exponent) = 1 THEN RatMul(digits, Num(Pow10(RunValue(Unsigned(exponent)))))
    ELSE RatDiv(digits, Num(Pow10(RunValue(Unsigned(exponent)))))

ParseParts(sign, whole, fraction, exponent, e) ==
    IF /\ whole # <<>> \/ fraction # <<>>
       /\ whole = <<>> \/ DigitRun(whole)
       /\ fraction = <<>> \/ DigitRun(fraction)
       /\ e = 0 \/ DigitRun(Unsigned(exponent))
    THEN [ok |-> TRUE, val |-> Scaled(Decimal(sign, whole, fraction), exponent)]
    ELSE [ok |-> FALSE, val |-> Num(0)]

ParseMantissa(sign, m, dot, exponent, e) ==
    ParseParts(sign, Whole(m, dot), Fraction(m, dot), exponent, e)

ParseDecimal(sign, u, e) ==
    ParseMantissa(sign, Mantissa(u, e), First(Mantissa(u, e), {"."}), Exponent(u, e), e)

ParseSigned(sign, u) ==
    IF AsciiLower(u) \in {<<"i","n","f">>, <<"i","n","f","i","n","i","t","y">>}
    THEN [ok |-> TRUE, val |-> Infinity(sign)]
    ELSE IF AsciiLower(u) = <<"n","a","n">> THEN [ok |-> TRUE, val |-> NaN]
    ELSE ParseDecimal(sign, u, ExponentMark(u))

ParseStripped(s) == ParseSigned(SignOf(s), Unsigned(s))

ParseFloat(text) == ParseStripped(StripSpace(text))

RECURSIVE RStrip(_, _)
\* str.rstrip(c)
RStrip(s, c) == IF s # <<>> /\ s[Len(s)] = c THEN RStrip(SubSeq(s, 1, Len(s) - 1), c) ELSE s

RECURSIVE Chars(_)
\* the decimal text of a natural number
Chars(n) == IF n < 10 THEN <<IF n = 0 THEN "0" ELSE CharOf[n]>>
            ELSE Chars(n \div 10) \o <<IF n % 10 = 0 THEN "0" ELSE CharOf[n % 10]>>

\* "pattern in s" on character sequences
Contains(s, pat) ==
    \E i \in 1..(Len(s) - Len(pat) + 1) : SubSeq(s, i, i + Len(pat) - 1) = pat

\* dict.get(k, default)
Get(d, k, default) == IF k \in DOMAIN d THEN d[k] ELSE default

-----------------------------------------------------------------------------
(* _detect_asset_type (alphavantage_service.py) *)

crypto_patterns == { <<"B","T","C">>, <<"E","T","H">>, <<"A","D","A">>, <<"D","O","T">>,
                     <<"L","I","N","K">>, <<"U","N","I">>, <<"A","A","V","E">>,
                     <<"S","O","L">>, <<"M","A","T","I","C">>, <<"A","V","A","X">> }

forex_patterns == { <<"U","S","D">>, <<"E","U","R">>, <<"G","B","P">>, <<"J","P","Y">>,
                    <<"A","U","D">>, <<"C","A","D">>, <<"C","H","F">>, <<"N","Z","D">> }

\* the same with the currency-pair rule tested before the crypto patterns
_detect_asset_type_forex_first(symbol) ==
    LET symbol_upper == Upper(symbol)
    IN IF Len(symbol_upper) = 6 /\ \E pattern \in forex_patterns : Contains(symbol_upper, pattern)
       THEN "forex"
       ELSE IF \E pattern \in crypto_patterns : Contains(symbol_upper, pattern) THEN "crypto"
            ELSE "stock"

_detect_asset_type(symbol) ==
    LET symbol_upper == Upper(symbol)
    IN IF \E pattern \in crypto_patterns : Contains(symbol_upper, pattern) THEN "crypto"
       ELSE IF Len(symbol_upper) = 6 /\ \E pattern \in forex_patterns : Contains(symbol_upper, pattern)
            THEN "forex"
            ELSE "stock"

-----------------------------------------------------------------------------
(* HTTP responses of the providers.  A response is a timeout (client.get    *)
(* raises), or a status with a body; a body is invalid JSON (response.json  *)
(* raises), a JSON list, or a JSON object d.                                *)

Timeout == [kind |-> "timeout", status |-> 0, body |-> [t |-> "invalid", d |-> EmptyDict]]
Http(status, body) == [kind |-> "http", status |-> status, body |-> body]
Invalid == [t |-> "invalid", d |-> EmptyDict]
JsonList == [t |-> "list", d |-> EmptyDict]
Json(d) == [t |-> "dict", d |-> d]

FullQuote(price) ==
    ("02. open" :> <<"1","4","8">>) @@ ("03. high" :> <<"1","5","5">>) @@
    ("04. low" :> <<"1","4","5">>) @@ ("05. price" :> price) @@
    ("06. volume" :> <<"1","0","0","0">>) @@ ("08. previous close" :> <<"1","4","8">>) @@
    ("09. change" :> <<"2">>) @@ ("10. change percent" :> <<"1","%">>)

\* the quote of test_successful_price_fetch (tests/test_alphavantage_service.py)
TestQuote ==
    ("01. symbol" :> <<"A","A","P","L">>) @@ ("02. open" :> <<"1","5","0",".","0","0">>) @@
    ("03. high" :> <<"1","5","5",".","0","0">>) @@ ("04. low" :> <<"1","4","9",".","0","0">>) @@
    ("05. price" :> <<"1","5","2",".","5","0">>) @@ ("06. volume" :> <<"1","0","0","0","0","0","0">>) @@
    ("07. latest trading day" :> <<"2","0","2","4","-","0","1","-","1","5">>) @@
    ("08. previous close" :> <<"1","5","0",".","0","0">>) @@ ("09. change" :> <<"2",".","5","0">>) @@
    ("10. change percent" :> <<"1",".","6","7","%">>)

AlphaVantageQuoteResponses ==
    { Timeout,
      Http(500, Json(EmptyDict)),
      Http(200, Invalid),
      Http(200, JsonList),
      Http(200, Json("Error Message" :> "Invalid API call")),
      Http(200, Json("Note" :> "API call frequency exceeded")),
      Http(200, Json(EmptyDict)),
      Http(200, Json("Global Quote" :> EmptyDict)),
      Http(200, Json("Global Quote" :> ("01. symbol" :> <<"X">>))),
      Http(200, Json("Global Quote" :> ("05. price" :> <<"a","b","c">>))),
      Http(200, Json("Global Quote" :> ("05. price" :> <<"1","5","0">>))),
      Http(200, Json("Global Quote" :> FullQuote(<<"1","5","0">>))),
      Http(200, Json("Global Quote" :> TestQuote)),
      Http(200, Json("Global Quote" :> (("05. price" :> <<"1","5","0">>) @@
                                        ("06. volume" :> <<"1","0","0","0",".","0">>)))),
      Http(200, Json("Global Quote" :> ("05. price" :> <<"","1","5","0"," ">>))),
      Http(200, Json("Global Quote" :> ("05. price" :> <<"","1","5","0">>))),
      Http(200, Json("Global Quote" :> (("05. price" :> <<"۱","۵","۰">>) @@
                                        ("06. volume" :> <<"1","_","۰">>)))) }

\* float(d.get(k, default_number)) and int(d.get(k, default_number)) on a
\* dict whose values are texts
FloatOf(d, k, default) == IF k \in DOMAIN d THEN ParseFloat(d[k]) ELSE [ok |-> TRUE, val |-> default]
IntOf(d, k, default) ==
    IF k \in DOMAIN d THEN ParseInt(d[k]) ELSE [ok |-> TRUE, val |-> Num(Trunc(default))]

\* lines 134-150: the record built from the parsed fields; a field that
\* float() or int() refuses raises ValueError
QuoteRecord(symbol, price, change, change_percent, volume, high, low, open, previous_close, t) ==
    IF ~(price.ok /\ change.ok /\ change_percent.ok /\ volume.ok /\ high.ok
         /\ low.ok /\ open.ok /\ previous_close.ok)
    THEN [raised |-> TRUE, value |-> None, http |-> 1]
    ELSE [raised |-> FALSE, http |-> 1,
          value |-> [symbol |-> Str(Upper(symbol)),
                     current_price |-> price.val,
                     change |-> change.val,
                     change_percent |-> change_percent.val,
                     volume |-> volume.val,
                     high |-> high.val,
                     low |-> low.val,
                     open |-> open.val,
                     previous_close |-> previous_close.val,
                     source |-> "alpha_vantage",
                     timestamp |-> t]]

\* lines 128-147: the fields of the quote, price being float(global_quote["05. price"])
QuoteOf(symbol, global_quote, price, t) ==
    IF DOMAIN global_quote = {} \/ "05. price" \notin DOMAIN global_quote
    THEN [raised |-> FALSE, value |-> None, http |-> 1]
    ELSE QuoteRecord(symbol, price,
                     FloatOf(global_quote, "09. change", Num(0)),
                     ParseFloat(RStrip(Get(global_quote, "10. change percent", <<"0","%">>), "%")),
                     IntOf(global_quote, "06. volume", Num(0)),
                     FloatOf(global_quote, "03. high", price.val),
                     FloatOf(global_quote, "04. low", price.val),
                     FloatOf(global_quote, "02. open", price.val),
                     FloatOf(global_quote, "08. previous close", price.val), t)

\* the body of _fetch_alpha_vantage_price after _rate_limit: [raised, value, http]
_fetch_alpha_vantage_price_try(symbol, response, t) ==
    IF response.kind = "timeout" THEN [raised |-> TRUE, value |-> None, http |-> 1]
    ELSE IF response.status # 200 THEN [raised |-> FALSE, value |-> None, http |-> 1]
    ELSE IF response.body.t = "invalid" THEN [raised |-> TRUE, value |-> None, http |-> 1]
    ELSE IF response.body.t = "list" THEN [raised |-> TRUE, value |-> None, http |-> 1]
    ELSE IF "Error Message" \in DOMAIN response.body.d
         THEN [raised |-> FALSE, value |-> None, http |-> 1]
    ELSE IF "Note" \in DOMAIN response.body.d
         THEN [raised |-> FALSE, value |-> None, http |-> 1]
    ELSE QuoteOf(symbol, Get(response.body.d, "Global Quote", EmptyDict),
                 FloatOf(Get(response.body.d, "Global Quote", EmptyDict), "05. price", Num(0)), t)

\* the adapter without its "except Exception: return None"
Uncaught(r) == r
\* try: ... except Exception as e: log; return None
ExceptReturnNone(r) == IF r.raised THEN [raised |-> FALSE, value |-> None, http |-> r.http] ELSE r

_fetch_alpha_vantage_price(symbol, response, t) ==
    ExceptReturnNone(_fetch_alpha_vantage_price_try(symbol, response, t))

-----------------------------------------------------------------------------
(* _fetch_alpha_vantage_history.  The JSON object of the answer is kept in  *)
(* document order, as the dict the code iterates: a sequence of members     *)
(* [key, value] whose keys are character sequences and whose values are     *)
(* JSON strings or JSON objects.  An object is the sequence of its own      *)
(* members; those of a time series are [date, values] in document order     *)
(* (newest bar first), dates being ISO dates written as the number          *)
(* yyyymmdd, whose numeric order is the order of the date strings.          *)

JsonString(text) == [text |-> text]
JsonObject(members) == [object |-> members]

Member(key, value) == [key |-> key, value |-> value]
Document(members) == [t |-> "dict", d |-> members]

\* "key in data"
HasKey(data, key) == \E i \in 1..Len(data) : data[i].key = key

\* data[key]: of members with one key the last one gives the value
ValueAt(data, key) ==
    data[CHOOSE i \in 1..Len(data) :
           data[i].key = key /\ \A j \in (i + 1)..Len(data) : data[j].key # key].value

ErrorMessageKey == <<"E","r","r","o","r"," ","M","e","s","s","a","g","e">>
NoteKey == <<"N","o","t","e">>
MetaDataKey == <<"M","e","t","a"," ","D","a","t","a">>
MonthlyKey == <<"M","o","n","t","h","l","y"," ","T","i","m","e"," ","S","e","r","i","e","s">>
WeeklyKey == <<"W","e","e","k","l","y"," ","T","i","m","e"," ","S","e","r","i","e","s">>
DailyKey == <<"T","i","m","e"," ","S","e","r","i","e","s"," ","(","D","a","i","l","y",")">>

BarValues(i) ==
    ("1. open" :> Chars(100 + i)) @@ ("2. high" :> Chars(102 + i)) @@
    ("3. low" :> Chars(99 + i)) @@ ("4. close" :> Chars(101 + i)) @@
    ("5. volume" :> Chars(1000 + i))

TimeSeries(n) == [j \in 1..n |-> [date |-> 20240100 + (n + 1 - j), values |-> BarValues(n + 1 - j)]]

\* a series whose first bar lacks its close
BrokenSeries == <<[date |-> 20240102, values |-> ("1. open" :> <<"1","0","0">>)],
                  [date |-> 20240101, values |-> BarValues(1)]>>

\* one bar with prices in decimal text
DecimalSeries ==
    <<[date |-> 20240102,
       values |-> ("1. open" :> <<"1","5","0",".","2","5">>) @@ ("2. high" :> <<"1","5","1",".","0","0">>) @@
                  ("3. low" :> <<"1","4","9",".","5","0">>) @@ ("4. close" :> <<"1","5","0",".","7","5">>) @@
                  ("5. volume" :> <<"1","2","3","4","5">>)]>>

\* one bar whose volume is written with a decimal point
DecimalVolumeSeries ==
    <<[date |-> 20240102, values |-> [BarValues(1) EXCEPT !["5. volume"] = <<"1","0","0","0",".","0">>]]>>

\* a series whose text holds the date of its first bar a second time
RepeatedDateSeries ==
    <<[date |-> 20240105, values |-> BarValues(5)],
      [date |-> 20240104, values |-> BarValues(4)],
      [date |-> 20240105, values |-> BarValues(6)]>>

\* one bar whose close starts with a vertical tab
PaddedCloseSeries ==
    <<[date |-> 20240102, values |-> [BarValues(1) EXCEPT !["4. close"] = <<"","1","0","1">>]]>>

\* two bars, the close of the second not a number
RefusedCloseSeries ==
    <<[date |-> 20240102, values |-> BarValues(2)],
      [date |-> 20240101, values |-> [BarValues(1) EXCEPT !["4. close"] = <<"a","b","c">>]]>>

\* the answer of the provider with one series of bars
SeriesAnswer(series) ==
    Http(200, Document(<<Member(MetaDataKey, JsonObject(<<>>)),
                          Member(MonthlyKey, JsonObject(series))>>))

\* for key in data.keys(): if "Time Series" in key: the first such key in
\* document order, <<>> when there is none
TimeSeriesKey(data) ==
    LET first == First([i \in 1..Len(data) |-> Contains(data[i].key, <<"T","i","m","e"," ","S","e","r","i","e","s">>)], {TRUE})
    IN IF first = 0 THEN <<>> ELSE data[first].key

HistoryLengths == {2, MIN_PRICES, HISTORY_LIMIT + 1}

AlphaVantageHistoryResponses ==
    { Timeout,
      Http(500, Document(<<>>)),
      Http(200, Invalid),
      Http(200, Document(<<Member(NoteKey, JsonString("API call frequency exceeded"))>>)),
      Http(200, Document(<<Member(ErrorMessageKey, JsonString("Invalid API call"))>>)),
      Http(200, Document(<<Member(MetaDataKey, JsonObject(<<>>))>>)),
      Http(200, Document(<<Member(MonthlyKey, JsonString("no data"))>>)),
      Http(200, Document(<<Member(MonthlyKey, JsonObject(<<>>))>>)),
      SeriesAnswer(BrokenSeries),
      SeriesAnswer(DecimalSeries),
      SeriesAnswer(DecimalVolumeSeries),
      SeriesAnswer(RepeatedDateSeries),
      SeriesAnswer(PaddedCloseSeries),
      SeriesAnswer(RefusedCloseSeries),
      Http(200, Document(<<Member(DailyKey, JsonObject(TimeSeries(2)))>>)),
      Http(200, Document(<<Member(MonthlyKey, JsonObject(TimeSeries(3))),
                           Member(WeeklyKey, JsonObject(TimeSeries(2)))>>)) }
    \cup { SeriesAnswer(TimeSeries(n)) : n \in HistoryLengths }

RECURSIVE InsertByDate(_, _)
\* x put before the first element of the sorted sequence s whose date is
\* later than x.date, that is after every element whose date is <= x.date
InsertByDate(s, x) ==
    IF s = <<>> THEN <<x>>
    ELSE IF s[1].date > x.date THEN <<x>> \o s
         ELSE <<s[1]>> \o InsertByDate(Tail(s), x)

RECURSIVE SortByDate(_)
\* list.sort(key=lambda x: x["date"]) (stable)
SortByDate(s) == IF s = <<>> THEN <<>>
                 ELSE InsertByDate(SortByDate(SubSeq(s, 1, Len(s) - 1)), s[Len(s)])

\* s[-n:]
Last(s, n) == IF Len(s) <= n THEN s ELSE SubSeq(s, Len(s) - n + 1, Len(s))

BarFields == {"1. open", "2. high", "3. low", "4. close", "5. volume"}

\* the dict appended for one entry, from its parsed fields: [ok, bar]; when
\* float() or int() refuses a field nothing is appended and bar is None
BarFrom(date, open, high, low, close, volume) ==
    IF open.ok /\ high.ok /\ low.ok /\ close.ok /\ volume.ok
    THEN [ok |-> TRUE,
          bar |-> [date |-> date, open |-> open.val, high |-> high.val, low |-> low.val,
                   close |-> close.val, volume |-> volume.val]]
    ELSE [ok |-> FALSE, bar |-> None]

\* lines 216-223 for one entry: ok = FALSE when a field is missing (KeyError)
\* or float() or int() refuses its text (ValueError)
ParsedBar(entry) ==
    IF ~(BarFields \subseteq DOMAIN entry.values) THEN [ok |-> FALSE, bar |-> None]
    ELSE BarFrom(entry.date,
                 ParseFloat(entry.values["1. open"]), ParseFloat(entry.values["2. high"]),
                 ParseFloat(entry.values["3. low"]), ParseFloat(entry.values["4. close"]),
                 ParseInt(entry.values["5. volume"]))

\* lines 213-227: the loop over the entries, the sort and the cut
HistoryOf(parsed) ==
    IF \E i \in DOMAIN parsed : ~parsed[i].ok THEN [raised |-> TRUE, value |-> None, http |-> 1]
    ELSE [raised |-> FALSE, http |-> 1,
          value |-> [list |-> Last(SortByDate([i \in DOMAIN parsed |-> parsed[i].bar]),
                                   HISTORY_LIMIT)]]

RECURSIVE Items(_)
\* dict.items() of the object response.json() builds from the members of
\* the JSON text: one entry per date, at the place where the date comes
\* first and with the values that come last
Items(members) ==
    IF members = <<>> THEN <<>>
    ELSE IF \E j \in 1..(Len(members) - 1) : members[j].date = members[Len(members)].date
    THEN Items([j \in 1..(Len(members) - 1) |->
                  IF members[j].date = members[Len(members)].date
                  THEN members[Len(members)] ELSE members[j]])
    ELSE Items(SubSeq(members, 1, Len(members) - 1)) \o <<members[Len(members)]>>

\* lines 216-223: the loop over the entries
ParsedBars(entries) == [i \in DOMAIN entries |-> ParsedBar(entries[i])]

\* lines 203-212: the series under the first key holding "Time Series"
\* lines 212-227: time_series.items() raises AttributeError on a string
EntriesOf(time_series) ==
    IF "object" \notin DOMAIN time_series THEN [raised |-> TRUE, value |-> None, http |-> 1]
    ELSE HistoryOf(ParsedBars(Items(time_series.object)))

SeriesOf(data, time_series_key) ==
    IF time_series_key = <<>> THEN [raised |-> FALSE, value |-> None, http |-> 1]
    ELSE EntriesOf(ValueAt(data, time_series_key))

\* the body of _fetch_alpha_vantage_history after _rate_limit; value is
\* [list |-> bars] or None
_fetch_alpha_vantage_history_try(symbol, period, response) ==
    IF response.kind = "timeout" THEN [raised |-> TRUE, value |-> None, http |-> 1]
    ELSE IF response.status # 200 THEN [raised |-> FALSE, value |-> None, http |-> 1]
    ELSE IF response.body.t # "dict" THEN [raised |-> TRUE, value |-> None, http |-> 1]
    ELSE IF HasKey(response.body.d, ErrorMessageKey) \/ HasKey(response.body.d, NoteKey)
         THEN [raised |-> FALSE, value |-> None, http |-> 1]
    ELSE SeriesOf(response.body.d, TimeSeriesKey(response.body.d))

\* the history sorted and not cut to the last HISTORY_LIMIT bars
UncutHistoryOf(r, series) ==
    IF r.value = None THEN r
    ELSE [r EXCEPT !.value = [list |-> SortByDate([i \in DOMAIN Items(series) |->
                                                     ParsedBar(Items(series)[i]).bar])]]

\* the body returning the whole sorted history, without the cut to the last
\* HISTORY_LIMIT bars
_fetch_alpha_vantage_history_uncut(symbol, period, response) ==
    UncutHistoryOf(ExceptReturnNone(_fetch_alpha_vantage_history_try(symbol, period, response)),
                   IF response.kind = "http" /\ response.body.t = "dict"
                      /\ TimeSeriesKey(response.body.d) # <<>>
                      /\ "object" \in DOMAIN ValueAt(response.body.d,
                                                     TimeSeriesKey(response.body.d))
                   THEN ValueAt(response.body.d, TimeSeriesKey(response.body.d)).object
                   ELSE <<>>)

_fetch_alpha_vantage_history(symbol, period, response) ==
    ExceptReturnNone(_fetch_alpha_vantage_history_try(symbol, period, response))

-----------------------------------------------------------------------------
(* _fetch_yahoo_finance_price.  The numbers of the JSON answer are numbers  *)
(* of the model, a JSON null is None, a JSON array is [list |-> items].     *)

JsonArray(items) == [list |-> items]

\* "not v" on a JSON number or null
FalsyNumber(v) == v = None \/ v = Num(0)

YahooMeta(price) ==
    ("regularMarketPrice" :> price) @@ ("previousClose" :> Num(100)) @@
    ("regularMarketVolume" :> Num(2000)) @@ ("regularMarketDayHigh" :> Num(155)) @@
    ("regularMarketDayLow" :> Num(95)) @@ ("regularMarketOpen" :> Num(101))

\* the meta of test_successful_price_fetch (TestYahooFinanceIntegration)
TestMeta ==
    ("regularMarketPrice" :> Frac(305, 2)) @@ ("previousClose" :> Num(150)) @@
    ("regularMarketVolume" :> Num(1000000)) @@ ("regularMarketDayHigh" :> Num(155)) @@
    ("regularMarketDayLow" :> Num(149)) @@ ("regularMarketOpen" :> Num(150))

YahooChart(meta) == "chart" :> ("result" :> JsonArray(<<[meta |-> meta]>>))

YahooResponses ==
    { Timeout,
      Http(404, Json(EmptyDict)),
      Http(200, Invalid),
      Http(200, Json(EmptyDict)),
      Http(200, Json("chart" :> EmptyDict)),
      Http(200, Json("chart" :> None)),
      Http(200, Json("chart" :> ("result" :> None))),
      Http(200, Json("chart" :> ("result" :> JsonArray(<<>>)))),
      Http(200, Json("chart" :> ("result" :> JsonArray(<<EmptyDict>>)))),
      Http(200, Json(YahooChart(None))),
      Http(200, Json(YahooChart("regularMarketPrice" :> None))),
      Http(200, Json(YahooChart(("regularMarketPrice" :> Num(4)) @@ ("previousClose" :> None)))),
      Http(200, Json(YahooChart("previousClose" :> Num(100)))),
      Http(200, Json(YahooChart("regularMarketPrice" :> Num(0)))),
      Http(200, Json(YahooChart("regularMarketPrice" :> Num(150)))),
      Http(200, Json(YahooChart(("regularMarketPrice" :> Num(4)) @@ ("previousClose" :> Num(3))))),
      Http(200, Json(YahooChart(("regularMarketPrice" :> Num(4)) @@ ("previousClose" :> Num(0))))),
      Http(200, Json(YahooChart(YahooMeta(Num(150))))),
      Http(200, Json(YahooChart(TestMeta))) }

\* lines 271-287: the record built from the meta
YahooRecord(symbol, meta, price, previous_close, t) ==
    [raised |-> FALSE, http |-> 1,
     value |-> [symbol |-> Str(Upper(symbol)),
                current_price |-> price,
                change |-> RatSub(price, previous_close),
                change_percent |-> IF previous_close.num # 0
                                   THEN RatMul(RatDiv(RatSub(price, previous_close),
                                                      previous_close), Num(100))
                                   ELSE Num(0),
                volume |-> Get(meta, "regularMarketVolume", Num(0)),
                high |-> Get(meta, "regularMarketDayHigh", price),
                low |-> Get(meta, "regularMarketDayLow", price),
                open |-> Get(meta, "regularMarketOpen", price),
                previous_close |-> previous_close,
                source |-> "yahoo_finance",
                timestamp |-> t]]

\* lines 266-274: meta = result["meta"]; a falsy price returns None; a null
\* previousClose raises TypeError in the subtraction
MetaOf(symbol, result, t) ==
    IF "meta" \notin DOMAIN result THEN [raised |-> TRUE, value |-> None, http |-> 1]
    ELSE IF result["meta"] = None THEN [raised |-> TRUE, value |-> None, http |-> 1]
    ELSE IF FalsyNumber(Get(result["meta"], "regularMarketPrice", None))
         THEN [raised |-> FALSE, value |-> None, http |-> 1]
    ELSE IF Get(result["meta"], "previousClose", Num(0)) = None
         THEN [raised |-> TRUE, value |-> None, http |-> 1]
    ELSE YahooRecord(symbol, result["meta"], result["meta"]["regularMarketPrice"],
                     Get(result["meta"], "previousClose", result["meta"]["regularMarketPrice"]), t)

_fetch_yahoo_finance_price_try(symbol, response, t) ==
    IF response.kind = "timeout" THEN [raised |-> TRUE, value |-> None, http |-> 1]
    ELSE IF response.status # 200 THEN [raised |-> FALSE, value |-> None, http |-> 1]
    ELSE IF response.body.t = "invalid" THEN [raised |-> TRUE, value |-> None, http |-> 1]
    ELSE IF "chart" \notin DOMAIN response.body.d
         THEN [raised |-> FALSE, value |-> None, http |-> 1]
    ELSE IF "result" \notin DOMAIN response.body.d["chart"]
         THEN [raised |-> TRUE, value |-> None, http |-> 1]
    ELSE IF response.body.d["chart"]["result"] = None
            \/ response.body.d["chart"]["result"] = JsonArray(<<>>)
         THEN [raised |-> FALSE, value |-> None, http |-> 1]
    ELSE MetaOf(symbol, response.body.d["chart"]["result"].list[1], t)

_fetch_yahoo_finance_price(symbol, response, t) ==
    ExceptReturnNone(_fetch_yahoo_finance_price_try(symbol, response, t))

-----------------------------------------------------------------------------
(* _fetch_coingecko_price *)

crypto_id_map ==
    ("BTC" :> "bitcoin") @@ ("ETH" :> "ethereum") @@ ("ADA" :> "cardano") @@
    ("DOT" :> "polkadot") @@ ("LINK" :> "chainlink") @@ ("UNI" :> "uniswap") @@
    ("AAVE" :> "aave") @@ ("SOL" :> "solana") @@ ("MATIC" :> "matic-network") @@
    ("AVAX" :> "avalanche-2")

\* the answer of CoinGecko for one coin
CoinAnswer(crypto_id, usd, change, vol) ==
    Http(200, Json(crypto_id :> (("usd" :> usd) @@ ("usd_24h_change" :> change) @@
                                 ("usd_24h_vol" :> vol))))

CoinGeckoResponses ==
    { Timeout,
      Http(429, Json(EmptyDict)),
      Http(200, Invalid),
      Http(200, Json(EmptyDict)),
      Http(200, Json("bitcoin" :> EmptyDict)),
      Http(200, Json("bitcoin" :> None)),
      Http(200, Json("bitcoin" :> ("usd" :> None))),
      Http(200, Json("bitcoin" :> (("usd" :> Num(10)) @@ ("usd_24h_change" :> None)))),
      Http(200, Json("bitcoin" :> ("usd" :> Num(0)))),
      Http(200, Json("bitcoin" :> ("usd" :> Num(100)))),
      CoinAnswer("bitcoin", Num(100), Num(10), Num(5000)),
      CoinAnswer("bitcoin", Num(101), Num(0), Num(5000)),
      CoinAnswer("bitcoin", Num(3), Num(10), Num(0)),
      CoinAnswer("bitcoin", Num(7), Num(-15), Num(0)),
      CoinAnswer("bitcoin", Num(45000), Frac(5, 2), Num(1000000000)),
      CoinAnswer("ethereum", Num(100), Num(10), Num(5000)) }

\* lines 347-363: the record built from the coin's data
CoinRecord(symbol, crypto_data, price, change_percent, t) ==
    [raised |-> FALSE, http |-> 1,
     value |-> [symbol |-> Str(Upper(symbol)),
                current_price |-> price,
                change |-> RatMul(price, RatDiv(change_percent, Num(100))),
                change_percent |-> change_percent,
                volume |-> Get(crypto_data, "usd_24h_vol", Num(0)),
                high |-> RatMul(price, Frac(105, 100)),
                low |-> RatMul(price, Frac(95, 100)),
                open |-> RatSub(price, RatMul(price, RatDiv(change_percent, Num(100)))),
                previous_close |-> RatSub(price, RatMul(price, RatDiv(change_percent, Num(100)))),
                source |-> "coingecko",
                timestamp |-> t]]

\* lines 346-349: a missing "usd" raises KeyError, a null price or a null
\* change raises TypeError in the arithmetic
CoinOf(symbol, crypto_data, t) ==
    IF "usd" \notin DOMAIN crypto_data THEN [raised |-> TRUE, value |-> None, http |-> 1]
    ELSE IF crypto_data["usd"] = None \/ Get(crypto_data, "usd_24h_change", Num(0)) = None
         THEN [raised |-> TRUE, value |-> None, http |-> 1]
    ELSE CoinRecord(symbol, crypto_data, crypto_data["usd"],
                    Get(crypto_data, "usd_24h_change", Num(0)), t)

\* lines 333-344: the HTTP exchange and the look-up of the coin in the answer
CoinGeckoBody(symbol, crypto_id, response, t) ==
    IF response.kind = "timeout" THEN [raised |-> TRUE, value |-> None, http |-> 1]
    ELSE IF response.status # 200 THEN [raised |-> FALSE, value |-> None, http |-> 1]
    ELSE IF response.body.t = "invalid" THEN [raised |-> TRUE, value |-> None, http |-> 1]
    ELSE IF crypto_id \notin DOMAIN response.body.d
         THEN [raised |-> FALSE, value |-> None, http |-> 1]
    ELSE CoinOf(symbol, response.body.d[crypto_id], t)

\* the crypto id is looked up first: an unknown ticker returns None with no
\* HTTP call
_fetch_coingecko_price_try(symbol, response, t) ==
    IF Str(Upper(symbol)) \notin DOMAIN crypto_id_map
    THEN [raised |-> FALSE, value |-> None, http |-> 0]
    ELSE CoinGeckoBody(symbol, crypto_id_map[Str(Upper(symbol))], response, t)

_fetch_coingecko_price(symbol, response, t) ==
    ExceptReturnNone(_fetch_coingecko_price_try(symbol, response, t))

-----------------------------------------------------------------------------
(* Inputs of the model *)

Tasks == 1..MaxTasks

Symbols == { <<"a","a","p","l">>, <<"B","T","C">> }
Periods == {"1mo"}

\* the provider answers the orchestrator's runs draw from: one failure and
\* one success per provider (every failure mode is drawn in SpecAdapters)
CoinGeckoAnswers ==
    { Timeout,
      CoinAnswer("bitcoin", Num(100), Num(10), Num(5000)) }
AlphaVantageAnswers ==
    { Http(200, Json("Note" :> "API call frequency exceeded")),
      Http(200, Json("Global Quote" :> FullQuote(<<"1","5","0">>))) }
HistoryAnswers ==
    { Http(500, Document(<<>>)) } \cup { SeriesAnswer(TimeSeries(n)) : n \in {2, MIN_PRICES} }
YahooAnswers ==
    { Http(200, Invalid), Http(200, Json(YahooChart(YahooMeta(Num(150))))) }

QuoteAnswers(pc) ==
    CASE pc = "coingecko" -> CoinGeckoAnswers
      [] pc = "alpha_vantage" -> AlphaVantageAnswers
      [] pc = "history" -> HistoryAnswers
      [] pc = "yahoo_finance" -> YahooAnswers

\* settings = get_environment_settings(): a DevelopmentSettings (ENVIRONMENT
\* unset, "development", "staging" or anything else) or a ProductionSettings
\* ("production"); the provider key and flags come from the process
\* environment
SettingsChoices ==
    [ALPHA_VANTAGE_API_KEY : {"demo", "real-key"},
     YAHOO_FINANCE_ENABLED : BOOLEAN,
     COINGECKO_ENABLED : BOOLEAN,
     CACHE_TTL : {DEVELOPMENT_CACHE_TTL, PRODUCTION_CACHE_TTL}]

\* the settings of an environment with every provider configured
AllProviders(cache_ttl) ==
    [ALPHA_VANTAGE_API_KEY |-> "real-key", YAHOO_FINANCE_ENABLED |-> TRUE,
     COINGECKO_ENABLED |-> TRUE, CACHE_TTL |-> cache_ttl]

\* the development settings under every choice of the providers
DevelopmentChoices == { c \in SettingsChoices : c.CACHE_TTL = DEVELOPMENT_CACHE_TTL }

-----------------------------------------------------------------------------
(* _rate_limit (alphavantage_service.py).  The function reads the clock and *)
(* the global, sleeps when the last request is too recent (a suspension     *)
(* point), and then stamps the global with the clock; nothing is held       *)
(* across the sleep.                                                        *)

\* seconds to sleep, 0 when no sleep is needed
RateLimitSleep(current_time, last) ==
    LET time_since_last == current_time - last
    IN IF time_since_last < RATE_LIMIT_DELAY THEN RATE_LIMIT_DELAY - time_since_last ELSE 0

Min(a, b) == IF a <= b THEN a ELSE b

\* a return of _rate_limit at the current time: the global is stamped; the gap
\* to the previous return is folded into rl
RateLimitReturn ==
    /\ _last_request_time' = now
    /\ rl' = [returned |-> TRUE,
              min_gap |-> IF rl.returned
                          THEN Min(rl.min_gap, Min(now - _last_request_time, RATE_LIMIT_DELAY))
                          ELSE rl.min_gap]

-----------------------------------------------------------------------------
(* The source adapters called directly, as the tests call them: one call,   *)
(* one answer of the provider.                                              *)

Adapters == {"alpha_vantage", "history", "yahoo_finance", "coingecko"}

NoOutcome == [raised |-> FALSE, value |-> None, http |-> 0]

IdleProbe == [pc |-> "idle", adapter |-> "", symbol |-> <<>>, response |-> Timeout,
              wake |-> 0, out |-> NoOutcome]

\* the answers a provider may give to the adapter's request
ResponsesOf(adapter) ==
    CASE adapter = "alpha_vantage" -> AlphaVantageQuoteResponses
      [] adapter = "history" -> AlphaVantageHistoryResponses
      [] adapter = "yahoo_finance" -> YahooResponses
      [] adapter = "coingecko" -> CoinGeckoResponses

\* the symbols the adapters are called with, as the callers write them
ProbeSymbols == Symbols \cup { <<"e","t","h">>, <<"m","s","f","t">>, <<"ß","o","l">>, <<"ÿ">> }

ProbeInputs(a) ==
    { [pc |-> "called", adapter |-> a, symbol |-> s, response |-> r, wake |-> 0,
       out |-> NoOutcome] :
        s \in ProbeSymbols, r \in ResponsesOf(a) }

\* the adapter is called and runs to its first suspension: await
\* _rate_limit() starts to sleep, or stamps the global and returns at once
\* to the await of the HTTP request (for an unknown coin there is no request
\* and the next step returns)
ProbeEnter ==
    /\ probe.pc = "called"
    /\ IF RateLimitSleep(now, _last_request_time) > 0
       THEN /\ probe' = [probe EXCEPT !.pc = "sleep",
                                      !.wake = now + RateLimitSleep(now, _last_request_time)]
            /\ UNCHANGED <<_last_request_time, rl>>
       ELSE /\ probe' = [probe EXCEPT !.pc = "http"]
            /\ RateLimitReturn
    /\ UNCHANGED <<now, nticks, ncalls, redis_up, store, cache_manager, settings,
                   gp, cb, batch, cm, eq, sig, ind, acq, ct, ov, win>>

\* asyncio.sleep is over: _rate_limit stamps the global and returns
ProbeWake ==
    /\ probe.pc = "sleep"
    /\ now >= probe.wake
    /\ probe' = [probe EXCEPT !.pc = "http"]
    /\ RateLimitReturn
    /\ UNCHANGED <<now, nticks, ncalls, redis_up, store, cache_manager, settings,
                   gp, cb, batch, cm, eq, sig, ind, acq, ct, ov, win>>

\* _fetch_alpha_vantage_price(symbol) after _rate_limit: the answer arrives,
\* is parsed, and the adapter returns
ProbeAlphaVantagePrice ==
    /\ probe.pc = "http" /\ probe.adapter = "alpha_vantage"
    /\ probe' = [probe EXCEPT !.pc = "returned",
                              !.out = _fetch_alpha_vantage_price(probe.symbol, probe.response, now)]
    /\ UNCHANGED <<now, nticks, ncalls, redis_up, store, cache_manager, settings,
                   _last_request_time, rl, gp, cb, batch, cm, eq, sig, ind, acq, ct, ov, win>>

\* _fetch_alpha_vantage_history(symbol, "1mo") after _rate_limit
ProbeAlphaVantageHistory ==
    /\ probe.pc = "http" /\ probe.adapter = "history"
    /\ probe' = [probe EXCEPT !.pc = "returned",
                              !.out = _fetch_alpha_vantage_history(probe.symbol, "1mo", probe.response)]
    /\ UNCHANGED <<now, nticks, ncalls, redis_up, store, cache_manager, settings,
                   _last_request_time, rl, gp, cb, batch, cm, eq, sig, ind, acq, ct, ov, win>>

\* _fetch_yahoo_finance_price(symbol) after _rate_limit
ProbeYahooFinancePrice ==
    /\ probe.pc = "http" /\ probe.adapter = "yahoo_finance"
    /\ probe' = [probe EXCEPT !.pc = "returned",
                              !.out = _fetch_yahoo_finance_price(probe.symbol, probe.response, now)]
    /\ UNCHANGED <<now, nticks, ncalls, redis_up, store, cache_manager, settings,
                   _last_request_time, rl, gp, cb, batch, cm, eq, sig, ind, acq, ct, ov, win>>

\* _fetch_coingecko_price(symbol) after _rate_limit
ProbeCoinGeckoPrice ==
    /\ probe.pc = "http" /\ probe.adapter = "coingecko"
    /\ probe' = [probe EXCEPT !.pc = "returned",
                              !.out = _fetch_coingecko_price(probe.symbol, probe.response, now)]
    /\ UNCHANGED <<now, nticks, ncalls, redis_up, store, cache_manager, settings,
                   _last_request_time, rl, gp, cb, batch, cm, eq, sig, ind, acq, ct, ov, win>>

-----------------------------------------------------------------------------
(* get_price_with_history (alphavantage_service.py), one frame per task.    *)
(* pc is the statement the task is at; inside an adapter, at is "start"     *)
(* (the if-test of the stage), "sleep" (asyncio.sleep in _rate_limit) or    *)
(* "http" (awaiting client.get).  A frame remembers when it was called and  *)
(* how many of the calls in acq.log had returned by then, what its lookup   *)
(* met and the calls of cache_price_data it made; acq.writes is the list of *)
(* the SETEX commands the server has executed for such calls.               *)

Stages == <<"coingecko", "alpha_vantage", "history", "yahoo_finance">>

\* the cache can be read and written at this moment
CacheReachable == cache_manager # "None" /\ redis_up

NoLookup == [at |-> 0, up |-> FALSE, seen |-> 0]

IdleFrame ==
    [pc |-> "idle", at |-> "start", symbol |-> <<>>, period |-> "", asset_type |-> "",
     price_data |-> None, history_data |-> None, result |-> None, raised |-> FALSE,
     calls |-> <<>>, quote |-> None, rl_calls |-> 0, writes |-> 0, wake |-> 0,
     held |-> None, cache_failed |-> FALSE, start |-> 0, returned_before |-> 0,
     lookup |-> NoLookup, sets |-> <<>>]

\* the call is made: the coroutine runs up to its first await, the read of
\* the cache
NewFrame(symbol, period) ==
    [IdleFrame EXCEPT !.pc = "lookup", !.symbol = symbol, !.period = period, !.start = now,
                      !.returned_before = Len(acq.log)]

\* the key built from the symbol as the caller wrote it
PriceCacheKeyAsWritten(symbol, period) == Str(symbol) \o "_" \o period

\* cache_key = f"{symbol_upper}_{period}"
PriceCacheKey(symbol, period) == Str(Upper(symbol)) \o "_" \o period

\* the entry the store holds for (upper-cased symbol, period) when the cache
\* can be read, None otherwise
HeldPriceEntry(symbol, period) ==
    LET k == "insightfinance:market_data:price:" \o Str(Upper(symbol)) \o "_" \o period
    IN IF cache_manager # "None" /\ redis_up /\ k \in DOMAIN store /\ now < store[k].exp
       THEN store[k].val.obj ELSE None

\* await get_cached_price_data(cache_key); if cached_data: return cached_data
Lookup(t) ==
    /\ gp[t].pc = "lookup"
    /\ LET f == gp[t]
           r == get_cached_price_data(PriceCacheKey(f.symbol, f.period))
           g == [f EXCEPT !.held = HeldPriceEntry(f.symbol, f.period),
                          !.cache_failed = get_cache_raises \/ ~redis_up,
                          !.lookup = [at |-> now, up |-> CacheReachable,
                                      seen |-> Len(acq.writes)]]
       IN gp' = [gp EXCEPT ![t] =
                   IF r.raised THEN [g EXCEPT !.pc = "done", !.raised = TRUE]
                   ELSE IF Truthy(r.value) THEN [g EXCEPT !.pc = "done", !.result = r.value]
                   ELSE [g EXCEPT !.pc = "coingecko", !.at = "start",
                                  !.asset_type = _detect_asset_type(Upper(f.symbol))]]
    /\ UNCHANGED <<now, nticks, ncalls, redis_up, store, cache_manager, settings,
                   _last_request_time, rl, cb, batch, cm, probe, eq, sig, ind, acq, ct, ov, win>>

\* the stage tests without "not price_data": every enabled source is tried
StageAppliesAfterSuccess(f) ==
    CASE f.pc = "coingecko" -> f.asset_type = "crypto" /\ settings.COINGECKO_ENABLED
      [] f.pc = "alpha_vantage" -> settings.ALPHA_VANTAGE_API_KEY # "demo"
      [] f.pc = "history" -> TRUE
      [] f.pc = "yahoo_finance" -> settings.YAHOO_FINANCE_ENABLED

\* the stage tests with the placeholder key taken for a key
StageAppliesDemoKeySent(f) ==
    CASE f.pc = "coingecko" -> f.asset_type = "crypto" /\ settings.COINGECKO_ENABLED
      [] f.pc = "alpha_vantage" -> ~Truthy(f.price_data)
      [] f.pc = "history" -> TRUE
      [] f.pc = "yahoo_finance" -> ~Truthy(f.price_data) /\ settings.YAHOO_FINANCE_ENABLED

\* the if-test guarding each stage
StageApplies(f) ==
    CASE f.pc = "coingecko" -> f.asset_type = "crypto" /\ settings.COINGECKO_ENABLED
      [] f.pc = "alpha_vantage" -> ~Truthy(f.price_data) /\ settings.ALPHA_VANTAGE_API_KEY # "demo"
      [] f.pc = "history" -> TRUE
      [] f.pc = "yahoo_finance" -> ~Truthy(f.price_data) /\ settings.YAHOO_FINANCE_ENABLED

\* the control flow with one more try of Yahoo Finance after it returned None
StageAfterRetry(f) ==
    CASE f.pc = "coingecko" -> "alpha_vantage"
      [] f.pc = "alpha_vantage" -> IF f.calls # <<>> /\ f.calls[Len(f.calls)].name = "alpha_vantage"
                                      /\ Truthy(f.price_data)
                                   THEN "history" ELSE "yahoo_finance"
      [] f.pc = "history" -> "yahoo_finance"
      [] f.pc = "yahoo_finance" ->
           IF ~Truthy(f.price_data) /\ settings.YAHOO_FINANCE_ENABLED
              /\ Len(SelectSeq(f.calls, LAMBDA c : c.name = "yahoo_finance")) = 1
           THEN "yahoo_finance" ELSE "finish"

\* the statement after a stage; history is fetched only inside the
\* "if price_data:" of the Alpha Vantage stage
StageAfter(f) ==
    CASE f.pc = "coingecko" -> "alpha_vantage"
      [] f.pc = "alpha_vantage" -> IF f.calls # <<>> /\ f.calls[Len(f.calls)].name = "alpha_vantage"
                                      /\ Truthy(f.price_data)
                                   THEN "history" ELSE "yahoo_finance"
      [] f.pc = "history" -> "yahoo_finance"
      [] f.pc = "yahoo_finance" -> "finish"

InStage(f) == f.pc \in {"coingecko", "alpha_vantage", "history", "yahoo_finance"}

\* the stage's test is false: fall through to the next statement
StageSkip(t) ==
    /\ InStage(gp[t]) /\ gp[t].at = "start"
    /\ ~StageApplies(gp[t])
    /\ gp' = [gp EXCEPT ![t] = [gp[t] EXCEPT !.pc = StageAfter(gp[t])]]
    /\ UNCHANGED <<now, nticks, ncalls, redis_up, store, cache_manager, settings,
                   _last_request_time, rl, cb, batch, cm, probe, eq, sig, ind, acq, ct, ov, win>>

\* the adapter is called and runs up to its first suspension: _rate_limit
\* either starts to sleep or returns at once
AdapterEnter(t) ==
    /\ InStage(gp[t]) /\ gp[t].at = "start"
    /\ StageApplies(gp[t])
    /\ LET d == RateLimitSleep(now, _last_request_time)
       IN IF d > 0
          THEN /\ gp' = [gp EXCEPT ![t] = [gp[t] EXCEPT !.at = "sleep", !.wake = now + d,
                                                        !.rl_calls = @ + 1]]
               /\ UNCHANGED <<_last_request_time, rl>>
          ELSE /\ gp' = [gp EXCEPT ![t] = [gp[t] EXCEPT !.at = "http", !.rl_calls = @ + 1]]
               /\ RateLimitReturn
    /\ UNCHANGED <<now, nticks, ncalls, redis_up, store, cache_manager, settings, cb, batch, cm, probe, eq, sig, ind, acq, ct, ov, win>>

\* asyncio.sleep is over: _rate_limit stamps the global and returns
RateLimitWake(t) ==
    /\ InStage(gp[t]) /\ gp[t].at = "sleep"
    /\ now >= gp[t].wake
    /\ gp' = [gp EXCEPT ![t] = [gp[t] EXCEPT !.at = "http", !.wake = 0]]
    /\ RateLimitReturn
    /\ UNCHANGED <<now, nticks, ncalls, redis_up, store, cache_manager, settings, cb, batch, cm, probe, eq, sig, ind, acq, ct, ov, win>>

\* the adapter of the stage, on the upper-cased symbol
StageAdapter(f, response) ==
    CASE f.pc = "coingecko" -> _fetch_coingecko_price(Upper(f.symbol), response, now)
      [] f.pc = "alpha_vantage" -> _fetch_alpha_vantage_price(Upper(f.symbol), response, now)
      [] f.pc = "history" -> _fetch_alpha_vantage_history(Upper(f.symbol), f.period, response)
      [] f.pc = "yahoo_finance" -> _fetch_yahoo_finance_price(Upper(f.symbol), response, now)

\* the rest of the adapter: the HTTP exchange and the parse of the answer.
\* An exception leaving the adapter leaves get_price_with_history too.

\* the frame once the adapter has answered r: the call is recorded
Called(f, r) ==
    [f EXCEPT !.calls = Append(@, [name |-> f.pc, ok |-> Truthy(r.value),
                                   http |-> r.http, raised |-> r.raised]),
              !.quote = IF f.pc # "history" /\ ~Truthy(@) THEN r.value ELSE @,
              !.at = "start"]

\* history_data = await ...  or  price_data = await ...
Assigned(f, g, r) ==
    IF f.pc = "history" THEN [g EXCEPT !.history_data = r.value]
    ELSE [g EXCEPT !.price_data = r.value]

\* on to the stage the code reaches next
Advanced(h) == [h EXCEPT !.pc = StageAfter(h)]

\* the adapter's answer r comes back to frame f of task t
AdapterReturn(t, f, r) ==
    gp' = [gp EXCEPT ![t] =
             IF r.raised THEN [Called(f, r) EXCEPT !.pc = "done", !.raised = TRUE]
             ELSE Advanced(Assigned(f, Called(f, r), r))]

\* the answer of the provider, one of answers, arrives at the adapter of
\* task t
AdapterHttpFrom(t, answers) ==
    /\ InStage(gp[t]) /\ gp[t].at = "http"
    /\ \E response \in answers :
         AdapterReturn(t, gp[t], StageAdapter(gp[t], response))
    /\ UNCHANGED <<now, nticks, ncalls, redis_up, store, cache_manager, settings,
                   _last_request_time, rl, cb, batch, cm, probe, eq, sig, ind, acq, ct, ov, win>>

AdapterHttp(t) == AdapterHttpFrom(t, QuoteAnswers(gp[t].pc))

\* the same with the quote standing in as one bar when there is no history
CombineResultQuoteAsBar(f) ==
    [history |-> IF f.history_data = None
                 THEN <<[date |-> 0, close |-> f.price_data.current_price]>>
                 ELSE f.history_data.list,
     asset_type |-> f.asset_type,
     period |-> f.period] @@ f.price_data

\* {**price_data, "history": history_data or [], "asset_type": ..., "period": ...}
CombineResult(f) ==
    [history |-> IF f.history_data = None THEN <<>> ELSE f.history_data.list,
     asset_type |-> f.asset_type,
     period |-> f.period] @@ f.price_data

\* if not price_data: return None; else the record is combined and
\* cache_price_data is called: get_cache() raises without a cache manager,
\* otherwise the SETEX command is sent and the task waits for its reply
Finish(t) ==
    /\ gp[t].pc = "finish"
    /\ LET f == gp[t]
       IN gp' = [gp EXCEPT ![t] =
                   IF ~Truthy(f.price_data) THEN [f EXCEPT !.pc = "done", !.result = None]
                   ELSE IF get_cache_raises
                        THEN [f EXCEPT !.pc = "done", !.raised = TRUE, !.cache_failed = TRUE]
                   ELSE [f EXCEPT !.pc = "setex", !.result = CombineResult(f)]]
    /\ UNCHANGED <<now, nticks, ncalls, redis_up, store, cache_manager, settings,
                   _last_request_time, rl, cb, batch, cm, probe, eq, sig, ind, acq, ct, ov, win>>

\* a SETEX the server has executed
WriteDone(key, value, ttl) == [key |-> key, value |-> value, ttl |-> ttl, at |-> now]

\* await cache_price_data(cache_key, result, ttl=300): the server executes the
\* SETEX, or cannot be reached and the error is swallowed
CacheWrite(t) ==
    /\ gp[t].pc = "setex"
    /\ LET f == gp[t]
           cache_key == PriceCacheKey(f.symbol, f.period)
           w == cache_price_data(cache_key, f.result, PRICE_TTL)
       IN /\ store' = w.store
          /\ gp' = [gp EXCEPT ![t] =
                      [f EXCEPT !.pc = "return",
                                !.writes = @ + (IF w.ok THEN 1 ELSE 0),
                                !.cache_failed = @ \/ ~w.ok,
                                !.sets = Append(@, [key |-> cache_key, value |-> f.result,
                                                    ttl |-> PRICE_TTL, ok |-> w.ok,
                                                    at |-> now])]]
          /\ acq' = [acq EXCEPT !.writes =
                       IF w.ok THEN Append(@, WriteDone(cache_key, f.result, PRICE_TTL))
                       ELSE @]
    /\ UNCHANGED <<now, nticks, ncalls, redis_up, cache_manager, settings,
                   _last_request_time, rl, cb, batch, cm, probe, eq, sig, ind, ct, ov, win>>

\* the task resumes with the reply: return result
Return(t) ==
    /\ gp[t].pc = "return"
    /\ gp' = [gp EXCEPT ![t] = [gp[t] EXCEPT !.pc = "done"]]
    /\ UNCHANGED <<now, nticks, ncalls, redis_up, store, cache_manager, settings,
                   _last_request_time, rl, cb, batch, cm, probe, eq, sig, ind, acq, ct, ov, win>>

\* one step of the task's get_price_with_history call other than the arrival
\* of a provider's answer
GpControl(t) == Lookup(t) \/ StageSkip(t) \/ AdapterEnter(t) \/ RateLimitWake(t)
                \/ Finish(t) \/ CacheWrite(t) \/ Return(t)

\* one step of the task's get_price_with_history call
GpStep(t) == GpControl(t) \/ AdapterHttp(t)

-----------------------------------------------------------------------------
(* Environment *)

\* no top-level call has returned and not yet been consumed by its caller
NoneDone ==
    /\ cb.pc # "done" /\ batch.pc # "done"
    /\ (cb.pc = "idle" /\ batch.pc = "idle") => gp[1].pc # "done"

\* a second passes; expired keys leave the store
Tick ==
    /\ NoneDone
    /\ nticks < MaxTicks
    /\ now' = now + 1
    /\ store' = Live(store, now + 1)
    /\ nticks' = nticks + 1
    /\ UNCHANGED <<ncalls, redis_up, cache_manager, settings, _last_request_time, rl,
                   gp, cb, batch, cm, probe, eq, sig, ind, acq, ct, ov, win>>

\* the tasks asleep in _rate_limit
Sleeping == {t \in Tasks : InStage(gp[t]) /\ gp[t].at = "sleep"}

\* the earliest moment at which one of them wakes
NextWake == CHOOSE w \in {gp[t].wake : t \in Sleeping} : \A t \in Sleeping : w <= gp[t].wake

\* time passes until the first sleep is over
SleepOver ==
    /\ Sleeping # {}
    /\ now < NextWake
    /\ now' = NextWake
    /\ store' = Live(store, NextWake)
    /\ UNCHANGED <<nticks, ncalls, redis_up, cache_manager, settings, _last_request_time, rl,
                   gp, cb, batch, cm, probe, eq, sig, ind, acq, ct, ov, win>>

\* d seconds pass at once
Wait(d) ==
    /\ NoneDone
    /\ now < d
    /\ now' = now + d
    /\ store' = Live(store, now + d)
    /\ UNCHANGED <<nticks, ncalls, redis_up, cache_manager, settings, _last_request_time, rl,
                   gp, cb, batch, cm, probe, eq, sig, ind, acq, ct, ov, win>>

\* the default TTL of the cache manager passes
Idle == Wait(settings.CACHE_TTL)

\* the TTL of a price entry passes
IdlePrice == Wait(PRICE_TTL)

\* the Redis server becomes unreachable, or reachable again
RedisFlip ==
    /\ NoneDone
    /\ redis_up' = ~redis_up
    /\ UNCHANGED <<now, nticks, ncalls, store, cache_manager, settings, _last_request_time, rl,
                   gp, cb, batch, cm, probe, eq, sig, ind, acq, ct, ov, win>>

\* init_cache() at startup: the manager exists once the ping has succeeded
init_cache ==
    /\ NoneDone
    /\ cache_manager = "None"
    /\ redis_up
    /\ cache_manager' = "CacheManager"
    /\ UNCHANGED <<now, nticks, ncalls, redis_up, store, settings, _last_request_time, rl,
                   gp, cb, batch, cm, probe, eq, sig, ind, acq, ct, ov, win>>

-----------------------------------------------------------------------------
(* Callers *)

IdleBatch == [pc |-> "idle", symbols |-> <<>>, result |-> EmptyDict, raised |-> FALSE]

\* a caller awaits get_price_with_history(symbol, period) on task 1
CallGetPrice ==
    /\ gp[1].pc = "idle" /\ cb.pc = "idle" /\ batch.pc = "idle"
    /\ ncalls < MaxCalls
    /\ ncalls' = ncalls + 1
    /\ \E symbol \in Symbols, period \in Periods :
         gp' = [gp EXCEPT ![1] = NewFrame(symbol, period)]
    /\ UNCHANGED <<now, nticks, redis_up, store, cache_manager, settings,
                   _last_request_time, rl, cb, batch, cm, probe, eq, sig, ind, acq, ct, ov, win>>

\* the caller has the outcome of its get_price_with_history call
ReturnGetPrice ==
    /\ gp[1].pc = "done" /\ cb.pc = "idle" /\ batch.pc = "idle"
    /\ gp' = [gp EXCEPT ![1] = IdleFrame]
    /\ UNCHANGED <<now, nticks, ncalls, redis_up, store, cache_manager, settings,
                   _last_request_time, rl, cb, batch, cm, probe, eq, sig, ind, acq, ct, ov, win>>

-----------------------------------------------------------------------------
(* get_multiple_prices (alphavantage_service.py): one task per symbol under *)
(* asyncio.gather with return_exceptions=True; task i runs the acquisition  *)
(* of symbols[i].                                                           *)

SymbolLists == UNION { [1..n -> Symbols] : n \in 1..MaxTasks }

\* tasks = [get_price_with_history(symbol) for symbol in symbols]; gather
\* schedules each coroutine as a task
CallGetMultiplePrices ==
    /\ batch.pc = "idle" /\ cb.pc = "idle" /\ \A t \in Tasks : gp[t].pc = "idle"
    /\ \E symbols \in SymbolLists :
         /\ ncalls + Len(symbols) <= MaxCalls
         /\ ncalls' = ncalls + Len(symbols)
         /\ batch' = [IdleBatch EXCEPT !.pc = "gather", !.symbols = symbols]
         /\ gp' = [t \in Tasks |-> IF t <= Len(symbols) THEN NewFrame(symbols[t], "1mo")
                                   ELSE IdleFrame]
    /\ UNCHANGED <<now, nticks, redis_up, store, cache_manager, settings,
                   _last_request_time, rl, cb, cm, probe, eq, sig, ind, acq, ct, ov, win>>

\* what gather puts in results for a task: its return value, or the
\* exception it raised
GatherResult(f) == IF f.raised THEN [exception |-> TRUE] ELSE f.result

\* isinstance(result, Exception)
IsException(result) == DOMAIN result = {"exception"}

\* the map when one raising task fails the whole batch
ZipToDictFailFast(symbols, results) ==
    IF \E i \in 1..Len(results) : IsException(results[i]) THEN EmptyDict
    ELSE [k \in {Str(symbols[i]) : i \in 1..Len(symbols)} |->
            results[CHOOSE i \in 1..Len(symbols) :
                      /\ Str(symbols[i]) = k
                      /\ \A j \in 1..Len(symbols) : Str(symbols[j]) = k => j <= i]]

\* {symbol: result if not isinstance(result, Exception) else None
\*  for symbol, result in zip(symbols, results)}: a later pair with the same
\* symbol replaces the earlier one
ZipToDict(symbols, results) ==
    [k \in {Str(symbols[i]) : i \in 1..Len(symbols)} |->
       LET i == CHOOSE i \in 1..Len(symbols) :
                  /\ Str(symbols[i]) = k
                  /\ \A j \in 1..Len(symbols) : Str(symbols[j]) = k => j <= i
       IN IF IsException(results[i]) THEN None ELSE results[i]]

\* every task has finished: gather returns and the map is built
Gather ==
    /\ batch.pc = "gather"
    /\ \A t \in 1..Len(batch.symbols) : gp[t].pc = "done"
    /\ LET results == [t \in 1..Len(batch.symbols) |-> GatherResult(gp[t])]
       IN batch' = [batch EXCEPT !.pc = "done", !.result = ZipToDict(batch.symbols, results)]
    /\ UNCHANGED <<now, nticks, ncalls, redis_up, store, cache_manager, settings,
                   _last_request_time, rl, gp, cb, cm, probe, eq, sig, ind, acq, ct, ov, win>>

\* the caller has the map of its get_multiple_prices call
ReturnBatch ==
    /\ batch.pc = "done"
    /\ batch' = IdleBatch
    /\ gp' = [t \in Tasks |-> IdleFrame]
    /\ UNCHANGED <<now, nticks, ncalls, redis_up, store, cache_manager, settings,
                   _last_request_time, rl, cb, cm, probe, eq, sig, ind, acq, ct, ov, win>>

-----------------------------------------------------------------------------
(* Direct callers of CacheManager.set, get, delete and clear_namespace.  cm  *)
(* keeps, per full key that was set and not deleted since, the last set     *)
(* that returned True (its time, the ttl the caller passed, its value), the *)
(* last operation with its outcome, and the clear_namespace call that has   *)
(* the keys of its namespace and awaits their DEL: one task at a time       *)
(* clears, and the others set, get and delete between its two awaits.       *)

CacheKeys == { <<"a", "">>, <<"a", "b">>, <<"b:a", "">> }
CacheValues == { [v |-> 1], [v |-> 2] }
\* the value the direct callers of this section set
SetValues == { [v |-> 1] }
TtlChoices == { None, PyInt(-1), PyInt(0), PyInt(1) }

NoOp == [op |-> "none", key |-> "", at |-> 0, ok |-> FALSE, value |-> None]
NotClearing == [pc |-> "idle", namespace |-> "", keys |-> {}]
IdleCache == [sets |-> EmptyDict, last |-> NoOp, clear |-> NotClearing]

\* await cache.set(key, value, ttl, namespace)
CacheSet ==
    /\ cache_manager # "None"
    /\ \E k \in CacheKeys, value \in SetValues, ttl \in TtlChoices :
         LET r == CacheManager_set(k[1], value, ttl, k[2])
             full_key == _generate_key(k[1], k[2])
         IN /\ store' = r.store
            /\ cm' = [cm EXCEPT
                        !.sets = IF r.ok
                                 THEN [x \in DOMAIN cm.sets \cup {full_key} |->
                                         IF x = full_key
                                         THEN [at |-> now, ttl |-> ttl, value |-> value]
                                         ELSE cm.sets[x]]
                                 ELSE cm.sets,
                        !.last = [op |-> "set", key |-> full_key, at |-> now, ok |-> r.ok,
                                  value |-> value]]
    /\ UNCHANGED <<now, nticks, ncalls, redis_up, cache_manager, settings,
                   _last_request_time, rl, gp, cb, batch, probe, eq, sig, ind, acq, ct, ov, win>>

\* the texts after the prefix in the full keys of CacheKeys
KeyTails == {k[1] : k \in CacheKeys} \cup {k[2] \o ":" \o k[1] : k \in {x \in CacheKeys : x[2] # ""}}

\* cm.sets without the keys gone
Forgotten(sets, keys) == [x \in DOMAIN sets \ keys |-> sets[x]]

\* await cache.delete(key, namespace)
CacheDelete ==
    /\ cache_manager # "None"
    /\ \E k \in CacheKeys :
         LET r == CacheManager_delete(k[1], k[2])
             full_key == _generate_key(k[1], k[2])
         IN /\ store' = r.store
            /\ cm' = [cm EXCEPT
                        !.sets = IF r.ok THEN Forgotten(cm.sets, {full_key}) ELSE cm.sets,
                        !.last = [op |-> "delete", key |-> full_key, at |-> now, ok |-> r.ok,
                                  value |-> None]]
    /\ UNCHANGED <<now, nticks, ncalls, redis_up, cache_manager, settings,
                   _last_request_time, rl, gp, cb, batch, probe, eq, sig, ind, acq, ct, ov, win>>

\* clear_namespace has returned deleted to its caller
Cleared(namespace, deleted) ==
    [op |-> "clear", key |-> _generate_key("*", namespace), at |-> now, ok |-> deleted > 0,
     value |-> PyInt(deleted)]

\* a task awaits cache.clear_namespace(namespace) and the server answers
\* its KEYS: with no key, or the server out of reach, the call returns 0;
\* otherwise it sends DEL with the keys it was given and waits
CacheClearNamespace ==
    /\ cache_manager # "None"
    /\ cm.clear.pc = "idle"
    /\ \E namespace \in {k[2] : k \in CacheKeys} :
         LET keys == clear_namespace(namespace, KeyTails)
         IN cm' = IF keys = {}
                  THEN [cm EXCEPT !.last = Cleared(namespace, 0)]
                  ELSE [cm EXCEPT !.clear = [pc |-> "del", namespace |-> namespace,
                                                keys |-> keys]]
    /\ UNCHANGED <<now, nticks, ncalls, redis_up, store, cache_manager, settings,
                   _last_request_time, rl, gp, cb, batch, probe, eq, sig, ind, acq, ct, ov, win>>

\* the server answers the DEL of that clear_namespace, and the call
\* returns the number of keys that were still there
CacheClearNamespaceDelete ==
    /\ cm.clear.pc = "del"
    /\ LET r == clear_namespace_delete(cm.clear.keys)
       IN /\ store' = r.store
          /\ cm' = [cm EXCEPT
                      !.sets = IF redis_up THEN Forgotten(cm.sets, cm.clear.keys) ELSE cm.sets,
                      !.last = Cleared(cm.clear.namespace, r.deleted),
                      !.clear = NotClearing]
    /\ UNCHANGED <<now, nticks, ncalls, redis_up, cache_manager, settings,
                   _last_request_time, rl, gp, cb, batch, probe, eq, sig, ind, acq, ct, ov, win>>

\* await cache.get(key, namespace)
CacheGet ==
    /\ cache_manager # "None"
    /\ \E k \in CacheKeys :
         cm' = [cm EXCEPT !.last = [op |-> "get", key |-> _generate_key(k[1], k[2]), at |-> now,
                                    ok |-> redis_up,
                                    value |-> CacheManager_get(k[1], k[2], None)]]
    /\ UNCHANGED <<now, nticks, ncalls, redis_up, store, cache_manager, settings,
                   _last_request_time, rl, gp, cb, batch, probe, eq, sig, ind, acq, ct, ov, win>>

-----------------------------------------------------------------------------
(* generate_trading_signals (analysis_service.py): a pure function of the   *)
(* price and the seven indicator readings, each a number or None (a dict of *)
(* numbers for MACD, Bollinger and Stochastic).  The reasoning texts, which *)
(* no decision reads, are left out of the returned dict.                    *)

\* SignalStrength
VERY_WEAK == 1
WEAK == 2
MODERATE == 3
STRONG == 4
VERY_STRONG == 5

\* what one indicator section adds to the counters and to individual_signals
Vote(label, buy, sell) == [counted |-> TRUE, label |-> label, buy |-> buy, sell |-> sell]
NotEvaluated == [counted |-> FALSE, label |-> "", buy |-> Num(0), sell |-> Num(0)]

Half == Frac(1, 2)

\* the RSI section with a strong reading counted twice
rsi_signals_double(rsi) ==
    IF rsi = None THEN NotEvaluated
    ELSE IF RatLt(rsi, Num(30)) THEN Vote("STRONG_BUY", Num(2), Num(0))
    ELSE IF RatLt(rsi, Num(40)) THEN Vote("BUY", Half, Num(0))
    ELSE IF RatGt(rsi, Num(70)) THEN Vote("STRONG_SELL", Num(0), Num(2))
    ELSE IF RatGt(rsi, Num(60)) THEN Vote("SELL", Num(0), Half)
    ELSE Vote("NEUTRAL", Num(0), Num(0))

\* if rsi is not None: ...
rsi_signals(rsi) ==
    IF rsi = None THEN NotEvaluated
    ELSE IF RatLt(rsi, Num(30)) THEN Vote("STRONG_BUY", Num(1), Num(0))
    ELSE IF RatLt(rsi, Num(40)) THEN Vote("BUY", Half, Num(0))
    ELSE IF RatGt(rsi, Num(70)) THEN Vote("STRONG_SELL", Num(0), Num(1))
    ELSE IF RatGt(rsi, Num(60)) THEN Vote("SELL", Num(0), Half)
    ELSE Vote("NEUTRAL", Num(0), Num(0))

\* if macd_data and macd_data["macd"] is not None and macd_data["signal"] is not None: ...
macd_signals(macd_data) ==
    IF ~Truthy(macd_data) \/ macd_data.macd = None \/ macd_data.signal = None THEN NotEvaluated
    ELSE LET macd_line == macd_data.macd
             signal_line == macd_data.signal
             histogram == macd_data.histogram
         IN IF RatGt(macd_line, signal_line) /\ RatGt(histogram, Num(0))
            THEN Vote("BUY", Num(1), Num(0))
            ELSE IF RatLt(macd_line, signal_line) /\ RatLt(histogram, Num(0))
            THEN Vote("SELL", Num(0), Num(1))
            ELSE Vote("NEUTRAL", Num(0), Num(0))

\* if bb_data and bb_data["upper"] is not None: ...
bollinger_signals(current_price, bb_data) ==
    IF ~Truthy(bb_data) \/ bb_data.upper = None THEN NotEvaluated
    ELSE LET upper == bb_data.upper
             lower == bb_data.lower
             middle == bb_data.middle
         IN IF RealLe(current_price, lower) THEN Vote("STRONG_BUY", Num(1), Num(0))
            ELSE IF RealGe(current_price, upper) THEN Vote("STRONG_SELL", Num(0), Num(1))
            ELSE IF RatLt(current_price, middle) THEN Vote("BUY", Half, Num(0))
            ELSE IF RatGt(current_price, middle) THEN Vote("SELL", Num(0), Half)
            ELSE Vote("NEUTRAL", Num(0), Num(0))

\* if stoch_data and stoch_data["k_percent"] is not None: ...
stochastic_signals(stoch_data) ==
    IF ~Truthy(stoch_data) \/ stoch_data.k_percent = None THEN NotEvaluated
    ELSE LET k_percent == stoch_data.k_percent
         IN IF RatLt(k_percent, Num(20)) THEN Vote("BUY", Half, Num(0))
            ELSE IF RatGt(k_percent, Num(80)) THEN Vote("SELL", Num(0), Half)
            ELSE Vote("NEUTRAL", Num(0), Num(0))

\* if williams_r is not None: ...
williams_r_signals(williams_r) ==
    IF williams_r = None THEN NotEvaluated
    ELSE IF RatLt(williams_r, Num(-80)) THEN Vote("BUY", Half, Num(0))
    ELSE IF RatGt(williams_r, Num(-20)) THEN Vote("SELL", Num(0), Half)
    ELSE Vote("NEUTRAL", Num(0), Num(0))

\* the same deciding on the two averages alone, whatever the price
ema_trend_signals_cross_only(current_price, ema_20, ema_50) ==
    IF ema_20 = None \/ ema_50 = None THEN NotEvaluated
    ELSE IF RatGt(ema_20, ema_50) THEN Vote("BUY", Num(1), Num(0))
    ELSE IF RatLt(ema_20, ema_50) THEN Vote("SELL", Num(0), Num(1))
    ELSE Vote("NEUTRAL", Num(0), Num(0))

\* if ema_20 is not None and ema_50 is not None: ...
ema_trend_signals(current_price, ema_20, ema_50) ==
    IF ema_20 = None \/ ema_50 = None THEN NotEvaluated
    ELSE IF RatGt(ema_20, ema_50) /\ RatGt(current_price, ema_20)
    THEN Vote("BUY", Num(1), Num(0))
    ELSE IF RatLt(ema_20, ema_50) /\ RatLt(current_price, ema_20)
    THEN Vote("SELL", Num(0), Num(1))
    ELSE Vote("NEUTRAL", Num(0), Num(0))

\* the six sections in the order of the code, by the key of individual_signals
SignalNames == <<"rsi", "macd", "bollinger", "stochastic", "williams_r", "ema_trend">>

Sections(a) ==
    [rsi |-> rsi_signals(a.rsi),
     macd |-> macd_signals(a.macd_data),
     bollinger |-> bollinger_signals(a.current_price, a.bb_data),
     stochastic |-> stochastic_signals(a.stoch_data),
     williams_r |-> williams_r_signals(a.williams_r),
     ema_trend |-> ema_trend_signals(a.current_price, a.ema_20, a.ema_50)]

RECURSIVE SumVotes(_, _, _)
SumVotes(sections, side, i) ==
    IF i = 0 THEN Num(0)
    ELSE RatAdd(SumVotes(sections, side, i - 1), sections[SignalNames[i]][side])

\* the counters buy_signals, sell_signals and total_signals at line 499
Counters(a) ==
    LET sections == Sections(a)
    IN [buy_signals |-> SumVotes(sections, "buy", Len(SignalNames)),
        sell_signals |-> SumVotes(sections, "sell", Len(SignalNames)),
        total_signals |-> Cardinality({i \in 1..Len(SignalNames) :
                                         sections[SignalNames[i]].counted})]

\* the decision with the thresholds met by equality
PrimarySignalAtThreshold(buy_ratio, sell_ratio) ==
    IF RatGe(buy_ratio, Frac(6, 10))
    THEN [primary_signal |-> "BUY",
          signal_strength |-> IF RatGe(buy_ratio, Frac(8, 10)) THEN STRONG ELSE MODERATE]
    ELSE IF RatGe(sell_ratio, Frac(6, 10))
    THEN [primary_signal |-> "SELL",
          signal_strength |-> IF RatGe(sell_ratio, Frac(8, 10)) THEN STRONG ELSE MODERATE]
    ELSE [primary_signal |-> "HOLD", signal_strength |-> WEAK]

\* lines 504-512
PrimarySignal(buy_ratio, sell_ratio) ==
    IF RatGt(buy_ratio, Frac(6, 10))
    THEN [primary_signal |-> "BUY",
          signal_strength |-> IF RatGt(buy_ratio, Frac(8, 10)) THEN STRONG ELSE MODERATE]
    ELSE IF RatGt(sell_ratio, Frac(6, 10))
    THEN [primary_signal |-> "SELL",
          signal_strength |-> IF RatGt(sell_ratio, Frac(8, 10)) THEN STRONG ELSE MODERATE]
    ELSE [primary_signal |-> "HOLD", signal_strength |-> WEAK]

\* the risk levels with the thresholds met by equality
RiskLevelAtThreshold(confidence) ==
    IF RatGe(confidence, Num(80)) THEN "low"
    ELSE IF RatGe(confidence, Num(60)) THEN "medium"
    ELSE "high"

\* lines 518-523
RiskLevel(confidence) ==
    IF RatGt(confidence, Num(80)) THEN "low"
    ELSE IF RatGt(confidence, Num(60)) THEN "medium"
    ELSE "high"

\* the trend is never written
TrendOfUnset(ema_trend) == "sideways"

\* trend_direction is set in the EMA section only
TrendOf(ema_trend) ==
    IF ema_trend.counted /\ ema_trend.label = "BUY" THEN "bullish"
    ELSE IF ema_trend.counted /\ ema_trend.label = "SELL" THEN "bearish"
    ELSE "sideways"

IndividualSignals(sections) ==
    [n \in {SignalNames[i] : i \in {j \in 1..Len(SignalNames) : sections[SignalNames[j]].counted}}
       |-> sections[n].label]

generate_trading_signals(a) ==
    LET sections == Sections(a)
        c == Counters(a)
    IN IF c.total_signals > 0
       THEN LET buy_ratio == RatDiv(c.buy_signals, Num(c.total_signals))
                sell_ratio == RatDiv(c.sell_signals, Num(c.total_signals))
                p == PrimarySignal(buy_ratio, sell_ratio)
                confidence == RatMul(RatMax(buy_ratio, sell_ratio), Num(100))
            IN [primary_signal |-> p.primary_signal,
                signal_strength |-> p.signal_strength,
                confidence |-> confidence,
                trend_direction |-> TrendOf(sections.ema_trend),
                individual_signals |-> IndividualSignals(sections),
                risk_level |-> RiskLevel(confidence)]
       ELSE [primary_signal |-> "HOLD",
             signal_strength |-> WEAK,
             confidence |-> Num(0),
             trend_direction |-> "sideways",
             individual_signals |-> IndividualSignals(sections),
             risk_level |-> "medium"]

\* readings on both sides of every threshold of the function, the inputs of
\* test_bullish_signals, test_bearish_signals and test_neutral_signals among
\* them; the price is 100 throughout
RsiReadings == {None, Num(25), Num(30), Num(35), Num(50), Num(65), Num(75)}

Macd(macd, signal, histogram) == [macd |-> macd, signal |-> signal, histogram |-> histogram]
MacdReadings ==
    { None, Macd(Num(1), Half, Half), Macd(Half, Num(1), Frac(-1, 2)), Macd(Half, Half, Num(0)) }

Bands(lower, middle, upper, percent_b) ==
    [upper |-> Num(upper), middle |-> Num(middle), lower |-> Num(lower),
     percent_b |-> Num(percent_b)]
BollingerReadings ==
    { None,
      Bands(90, 100, 110, 20), Bands(90, 100, 110, 80), Bands(90, 100, 110, 50),
      Bands(100, 110, 120, 0), Bands(105, 115, 125, -25),
      Bands(80, 90, 100, 100), Bands(75, 85, 95, 125),
      Bands(95, 105, 115, 25), Bands(85, 95, 105, 75) }

StochasticReadings == { None } \cup { [k_percent |-> Num(k)] : k \in {15, 50, 85} }
WilliamsReadings == { None, Num(-85), Num(-50), Num(-15) }

\* <<ema_20, ema_50>>
EmaReadings ==
    { <<None, None>>, <<Num(102), None>>, <<Num(102), Num(98)>>, <<Num(98), Num(95)>>,
      <<Num(98), Num(102)>>, <<Num(102), Num(105)>>, <<Num(100), Num(100)>> }

SignalArguments ==
    { [current_price |-> Num(100), rsi |-> rsi, macd_data |-> macd_data, bb_data |-> bb_data,
       stoch_data |-> stoch_data, williams_r |-> williams_r,
       ema_20 |-> ema[1], ema_50 |-> ema[2]] :
        rsi \in RsiReadings, macd_data \in MacdReadings, bb_data \in BollingerReadings,
        stoch_data \in StochasticReadings, williams_r \in WilliamsReadings,
        ema \in EmaReadings }

NoSignals == [primary_signal |-> "", signal_strength |-> 0, confidence |-> Num(0),
              trend_direction |-> "", individual_signals |-> EmptyDict, risk_level |-> ""]

IdleSignals == [pc |-> "idle", args |-> CHOOSE a \in SignalArguments : TRUE,
                out |-> NoSignals]

\* a caller's generate_trading_signals(...) returns
CallGenerateTradingSignals ==
    /\ sig.pc = "called"
    /\ sig' = [sig EXCEPT !.pc = "returned", !.out = generate_trading_signals(sig.args)]
    /\ UNCHANGED <<now, nticks, ncalls, redis_up, store, cache_manager, settings,
                   _last_request_time, rl, gp, cb, batch, cm, probe, eq, ind, acq, ct, ov, win>>

-----------------------------------------------------------------------------
(* The indicator functions (analysis_service.py): pure functions of a       *)
(* series of prices and of their periods.  A Python slice values[-n:] is    *)
(* the last n entries, values[:n] the first n.                              *)

MaxLen == 5       \* longest series drawn
MaxPrice == 4     \* prices drawn are 1..MaxPrice
MaxPeriod == 3    \* largest period drawn

LastN(values, n) == SubSeq(values, Len(values) - n + 1, Len(values))
FirstN(values, n) == SubSeq(values, 1, n)

RECURSIVE RatSum(_)
RatSum(values) ==
    IF values = <<>> THEN Num(0)
    ELSE RatAdd(RatSum(FirstN(values, Len(values) - 1)), values[Len(values)])

RECURSIVE RatMaxOf(_)
RatMaxOf(values) ==
    IF Len(values) = 1 THEN values[1]
    ELSE RatMax(RatMaxOf(FirstN(values, Len(values) - 1)), values[Len(values)])

RECURSIVE RatMinOf(_)
RatMinOf(values) ==
    IF Len(values) = 1 THEN values[1]
    ELSE RatMin(RatMinOf(FirstN(values, Len(values) - 1)), values[Len(values)])

\* a short series is averaged over the prices there are
simple_moving_average_of_available(values, period) ==
    IF period <= 0 \/ values = <<>> THEN None
    ELSE IF Len(values) < period THEN RatDiv(RatSum(values), Num(Len(values)))
    ELSE RatDiv(RatSum(LastN(values, period)), Num(period))

simple_moving_average(values, period) ==
    IF Len(values) < period \/ period <= 0 THEN None
    ELSE RatDiv(RatSum(LastN(values, period)), Num(period))

\* the loop of exponential_moving_average over values[0..k-1]
RECURSIVE EmaLoop(_, _, _)
EmaLoop(values, k, multiplier) ==
    IF k = 1 THEN values[1]
    ELSE RatAdd(RatMul(values[k], multiplier),
                RatMul(EmaLoop(values, k - 1, multiplier), RatSub(Num(1), multiplier)))

exponential_moving_average(values, period) ==
    IF Len(values) < period \/ period <= 0 THEN None
    ELSE EmaLoop(values, Len(values), Frac(2, period + 1))

\* changes[i] = values[i] - values[i-1]
Changes(values) ==
    [i \in 1..(Len(values) - 1) |-> RatSub(values[i + 1], values[i])]

Gains(changes) ==
    [i \in 1..Len(changes) |-> IF RatGt(changes[i], Num(0)) THEN changes[i] ELSE Num(0)]
Losses(changes) ==
    [i \in 1..Len(changes) |->
       IF RatLt(changes[i], Num(0)) THEN RatSub(Num(0), changes[i]) ELSE Num(0)]

\* a series without losses reads neutral
relative_strength_index_neutral(values, period) ==
    IF Len(values) < period + 1 \/ period <= 0 THEN None
    ELSE LET changes == Changes(values)
         IN IF Len(changes) < period THEN None
            ELSE LET avg_gain == RatDiv(RatSum(Gains(LastN(changes, period))), Num(period))
                     avg_loss == RatDiv(RatSum(Losses(LastN(changes, period))), Num(period))
                 IN IF avg_loss = Num(0) THEN Num(50)
                    ELSE LET rs == RatDiv(avg_gain, avg_loss)
                         IN RatSub(Num(100), RatDiv(Num(100), RatAdd(Num(1), rs)))

relative_strength_index(values, period) ==
    IF Len(values) < period + 1 \/ period <= 0 THEN None
    ELSE LET changes == Changes(values)
         IN IF Len(changes) < period THEN None
            ELSE LET avg_gain == RatDiv(RatSum(Gains(LastN(changes, period))), Num(period))
                     avg_loss == RatDiv(RatSum(Losses(LastN(changes, period))), Num(period))
                 IN IF avg_loss = Num(0) THEN Num(100)
                    ELSE LET rs == RatDiv(avg_gain, avg_loss)
                         IN RatSub(Num(100), RatDiv(Num(100), RatAdd(Num(1), rs)))

\* the MACD line of every prefix values[:i+1], i in range(slow_period, len(values)),
\* for which both averages exist
MacdValues(values, fast_period, slow_period) ==
    LET emas == [k \in 1..(Len(values) - slow_period) |->
                   [fast_ema |-> exponential_moving_average(FirstN(values, slow_period + k),
                                                            fast_period),
                    slow_ema |-> exponential_moving_average(FirstN(values, slow_period + k),
                                                            slow_period)]]
        kept == SelectSeq(emas, LAMBDA e : e.fast_ema # None /\ e.slow_ema # None)
    IN [k \in 1..Len(kept) |-> RatSub(kept[k].fast_ema, kept[k].slow_ema)]

macd(values, fast_period, slow_period, signal_period) ==
    IF Len(values) < slow_period + signal_period THEN None
    ELSE LET ema_fast == exponential_moving_average(values, fast_period)
             ema_slow == exponential_moving_average(values, slow_period)
         IN IF ema_fast = None \/ ema_slow = None THEN None
            ELSE LET macd_line == RatSub(ema_fast, ema_slow)
                     macd_values == MacdValues(values, fast_period, slow_period)
                     signal_line == exponential_moving_average(macd_values, signal_period)
                 IN IF signal_line = None THEN None
                    ELSE [macd |-> macd_line, signal |-> signal_line,
                          histogram |-> RatSub(macd_line, signal_line)]

Squares(values, sma) ==
    [i \in 1..Len(values) |-> RatMul(RatSub(values[i], sma), RatSub(values[i], sma))]

bollinger_bands(values, period, num_std) ==
    IF Len(values) < period \/ period <= 0 THEN None
    ELSE LET sma == simple_moving_average(values, period)
         IN IF sma = None THEN None
            ELSE LET window == LastN(values, period)
                     variance == RatDiv(RatSum(Squares(window, sma)), Num(period))
                     std_dev == math_sqrt(variance)
                     upper_band == RealAdd(sma, RealMul(num_std, std_dev))
                     lower_band == RealSub(sma, RealMul(num_std, std_dev))
                 IN [upper |-> upper_band,
                     middle |-> sma,
                     lower |-> lower_band,
                     width |-> RealSub(upper_band, lower_band),
                     percent_b |->
                       IF upper_band # lower_band
                       THEN RealMul(RealDiv(RealSub(values[Len(values)], lower_band),
                                            RealSub(upper_band, lower_band)), Num(100))
                       ELSE Num(50)]

\* %K of the window of period prices that ends at values[last] (counted from 1)
KPercent(values, period, last) ==
    LET window == SubSeq(values, last - period + 1, last)
        highest_high == RatMaxOf(window)
        lowest_low == RatMinOf(window)
    IN IF highest_high = lowest_low THEN Num(50)
       ELSE RatMul(RatDiv(RatSub(values[last], lowest_low),
                          RatSub(highest_high, lowest_low)), Num(100))

stochastic_oscillator(values, period, k_period) ==
    IF Len(values) < period \/ period <= 0 THEN None
    ELSE LET k_values == [j \in 1..(Len(values) - period + 1) |->
                            KPercent(values, period, period + j - 1)]
         IN IF Len(k_values) < k_period THEN None
            ELSE [k_percent |-> k_values[Len(k_values)],
                  d_percent |-> simple_moving_average(k_values, k_period)]

\* the ratio is scaled by 100, not by -100
williams_r_unsigned(values, period) ==
    IF Len(values) < period \/ period <= 0 THEN None
    ELSE LET window == LastN(values, period)
             highest_high == RatMaxOf(window)
             lowest_low == RatMinOf(window)
             current_close == values[Len(values)]
         IN IF highest_high = lowest_low THEN Num(-50)
            ELSE RatMul(RatDiv(RatSub(highest_high, current_close),
                               RatSub(highest_high, lowest_low)), Num(100))

williams_r(values, period) ==
    IF Len(values) < period \/ period <= 0 THEN None
    ELSE LET window == LastN(values, period)
             highest_high == RatMaxOf(window)
             lowest_low == RatMinOf(window)
             current_close == values[Len(values)]
         IN IF highest_high = lowest_low THEN Num(-50)
            ELSE RatMul(RatDiv(RatSub(highest_high, current_close),
                               RatSub(highest_high, lowest_low)), Num(-100))

\* the price stands for high, low and close
TrueRanges(values) ==
    [i \in 1..(Len(values) - 1) |->
       LET high == values[i + 1]
           low == values[i + 1]
           prev_close == values[i]
           tr1 == RatSub(high, low)
           tr2 == RatAbs(RatSub(high, prev_close))
           tr3 == RatAbs(RatSub(low, prev_close))
       IN RatMax(RatMax(tr1, tr2), tr3)]

average_true_range(values, period) ==
    IF Len(values) < period + 1 \/ period <= 0 THEN None
    ELSE LET true_ranges == TrueRanges(values)
         IN IF Len(true_ranges) < period THEN None
            ELSE simple_moving_average(true_ranges, period)

\* the calls drawn: every series of up to MaxLen prices, every function, and
\* periods from -1 up to MaxPeriod; MACD is given every pair of a fast and a
\* slow period from 0 up to MaxPeriod, the fast one below, at or above the
\* slow one
Series == UNION { [1..n -> {Num(v) : v \in 1..MaxPrice}] : n \in 0..MaxLen }

OnePeriod == {"simple_moving_average", "exponential_moving_average",
              "relative_strength_index", "bollinger_bands", "williams_r",
              "average_true_range"}

IndicatorCall(fn, values, periods) ==
    [pc |-> "called", fn |-> fn, values |-> values, periods |-> periods, out |-> None]

OnePeriodCalls ==
    { IndicatorCall(fn, values, <<period>>) :
        fn \in OnePeriod, values \in Series, period \in (-1)..MaxPeriod }
MacdCalls ==
    { IndicatorCall("macd", values, <<pp[1], pp[2], signal_period>>) :
        values \in Series,
        pp \in (0..MaxPeriod) \X (0..MaxPeriod),
        signal_period \in 0..(MaxLen - MaxPeriod) }
StochasticCalls ==
    { IndicatorCall("stochastic_oscillator", values, <<period, k_period>>) :
        values \in Series, period \in (-1)..MaxPeriod, k_period \in 0..MaxPeriod }

IdleIndicator == [pc |-> "idle", fn |-> "", values |-> <<>>, periods |-> <<>>, out |-> None]

\* the function named in the call, applied to its arguments
Apply(c) ==
    CASE c.fn = "simple_moving_average" -> simple_moving_average(c.values, c.periods[1])
      [] c.fn = "exponential_moving_average" ->
           exponential_moving_average(c.values, c.periods[1])
      [] c.fn = "relative_strength_index" -> relative_strength_index(c.values, c.periods[1])
      [] c.fn = "macd" -> macd(c.values, c.periods[1], c.periods[2], c.periods[3])
      [] c.fn = "bollinger_bands" -> bollinger_bands(c.values, c.periods[1], Num(2))
      [] c.fn = "stochastic_oscillator" ->
           stochastic_oscillator(c.values, c.periods[1], c.periods[2])
      [] c.fn = "williams_r" -> williams_r(c.values, c.periods[1])
      [] c.fn = "average_true_range" -> average_true_range(c.values, c.periods[1])

\* a caller's indicator call returns
CallIndicator ==
    /\ ind.pc = "called"
    /\ ind' = [ind EXCEPT !.pc = "returned", !.out = Apply(ind)]
    /\ UNCHANGED <<now, nticks, ncalls, redis_up, store, cache_manager, settings,
                   _last_request_time, rl, gp, cb, batch, cm, probe, eq, sig, acq, ct, ov, win>>

-----------------------------------------------------------------------------
(* compute_signal_bundle (analysis_service.py).  The whole body runs inside *)
(* "try: ... except Exception: return None".                                *)

NoPrev == [symbol |-> <<>>, period |-> "", at |-> 0, result |-> None,
           computable |-> FALSE, cache_ok |-> FALSE]

IdleBundle ==
    [pc |-> "idle", symbol |-> <<>>, period |-> "", result |-> None, raised |-> FALSE,
     acquisitions |-> 0, acquired |-> None, prices |-> <<>>, synthetic |-> FALSE,
     computable |-> FALSE, writes |-> 0, cache_ok |-> TRUE, prev |-> NoPrev]

\* cache_key = f"{symbol}_{period}": the symbol as the caller wrote it
SignalCacheKey(symbol, period) == Str(symbol) \o "_" \o period

\* the same over history[:50], the oldest bars
ClosesOfOldest(history) ==
    LET window == SubSeq(history, 1, IF Len(history) <= SIGNAL_WINDOW THEN Len(history)
                                     ELSE SIGNAL_WINDOW)
    IN [i \in 1..Len(window) |-> window[i].close]

\* [float(h["close"]) for h in history[-50:]]
ClosesOf(history) ==
    LET window == Last(history, SIGNAL_WINDOW)
    IN [i \in 1..Len(window) |-> window[i].close]

\* [base_price * (1 + (i - 25) * 0.01) for i in range(50)]
SyntheticPrices(base_price) ==
    [k \in 1..SIGNAL_WINDOW |->
       RatMul(base_price, RatAdd(Num(1), RatMul(Num((k - 1) - 25), Frac(1, 100))))]

\* the price series and whether it is the synthetic one
PricesPaddedWhenShort(price_data) ==
    IF Len(price_data.history) >= MIN_PRICES
    THEN [prices |-> ClosesOf(price_data.history), synthetic |-> FALSE]
    ELSE [prices |-> SyntheticPrices(price_data.current_price), synthetic |-> TRUE]

PricesOf(price_data) ==
    IF price_data.history # <<>>
    THEN [prices |-> ClosesOf(price_data.history), synthetic |-> FALSE]
    ELSE [prices |-> SyntheticPrices(price_data.current_price), synthetic |-> TRUE]

\* the names the body of compute_signal_bundle assigns: each is a local
\* variable of the function from its first line on
bundle_locals ==
    {"cache_key", "cached_signals", "price_data", "current_price", "history", "prices",
     "base_price", "rsi", "macd_data", "bb_data", "stoch_data", "williams_r", "ema_20",
     "ema_50", "sma_20", "atr", "signals", "result"}

\* the locals that have a value when the right-hand side of
\* "williams_r = williams_r(prices, 14)" is evaluated; base_price is assigned
\* in the else branch of "if history:" only
bound_at_williams_r(synthetic) ==
    {"cache_key", "cached_signals", "price_data", "current_price", "history", "prices",
     "rsi", "macd_data", "bb_data", "stoch_data"}
      \cup (IF synthetic THEN {"base_price"} ELSE {})

\* reading a name inside the function: a local without a value raises
\* UnboundLocalError, any other name is found among the module's functions
NameRaises(name, bound) == name \in bundle_locals /\ name \notin bound

\* the indicator block, lines 572-580: it raises where it calls a function
\* through a name that is a still unbound local
IndicatorBlockRaises(synthetic) == NameRaises("williams_r", bound_at_williams_r(synthetic))

\* the right-hand sides of lines 572-580
BundleIndicators(prices) ==
    [rsi |-> relative_strength_index(prices, 14),
     macd_data |-> macd(prices, 12, 26, 9),
     bb_data |-> bollinger_bands(prices, 20, Num(2)),
     stoch_data |-> stochastic_oscillator(prices, 14, 3),
     williams_r |-> williams_r(prices, 14),
     ema_20 |-> exponential_moving_average(prices, 20),
     ema_50 |-> exponential_moving_average(prices, 50),
     sma_20 |-> simple_moving_average(prices, 20),
     atr |-> average_true_range(prices, 14)]

\* generate_trading_signals(current_price, rsi, macd_data, bb_data, stoch_data,
\* williams_r, ema_20, ema_50), lines 583-586
BundleSignals(current_price, i) ==
    generate_trading_signals([current_price |-> current_price, rsi |-> i.rsi,
                              macd_data |-> i.macd_data, bb_data |-> i.bb_data,
                              stoch_data |-> i.stoch_data, williams_r |-> i.williams_r,
                              ema_20 |-> i.ema_20, ema_50 |-> i.ema_50])

\* the dict of lines 589-612 compiled from the indicators and the signals;
\* the reasoning texts are left out, as in generate_trading_signals
BundleCompiled(symbol, period, current_price, i, signals, t) ==
    [symbol |-> Str(Upper(symbol)),
     current_price |-> current_price,
     timestamp |-> t,
     period |-> period,
     signal |-> signals.primary_signal,
     signal_strength |-> signals.signal_strength,
     confidence |-> signals.confidence,
     trend_direction |-> signals.trend_direction,
     risk_level |-> signals.risk_level,
     reasoning |-> <<>>,
     indicators |-> [rsi |-> i.rsi, ema_20 |-> i.ema_20, ema_50 |-> i.ema_50,
                     sma_20 |-> i.sma_20, atr |-> i.atr, williams_r |-> i.williams_r],
     macd |-> i.macd_data,
     bollinger_bands |-> i.bb_data,
     stochastic |-> i.stoch_data,
     individual_signals |-> signals.individual_signals]

\* lines 583-612 on the indicators i
BundleFused(symbol, period, current_price, i, t) ==
    BundleCompiled(symbol, period, current_price, i, BundleSignals(current_price, i), t)

\* lines 572-612: the indicators of the prices, the signals fused from them
\* and the bundle compiled from both
BundleOf(symbol, period, current_price, prices, t) ==
    BundleFused(symbol, period, current_price, BundleIndicators(prices), t)

\* a caller awaits compute_signal_bundle(symbol, period)
CallComputeSignalBundle ==
    /\ gp[1].pc = "idle" /\ cb.pc = "idle" /\ batch.pc = "idle"
    /\ ncalls < MaxCalls
    /\ ncalls' = ncalls + 1
    /\ \E symbol \in Symbols, period \in Periods :
         cb' = [IdleBundle EXCEPT !.pc = "check", !.symbol = symbol, !.period = period,
                                  !.prev = cb.prev]
    /\ UNCHANGED <<now, nticks, redis_up, store, cache_manager, settings,
                   _last_request_time, rl, gp, batch, cm, probe, eq, sig, ind, acq, ct, ov, win>>

\* except Exception as e: log; return None
BundleExcept(o) == IF o.raised THEN [o EXCEPT !.raised = FALSE, !.result = None] ELSE o

\* the frame c after "await get_cached_indicator(symbol, cache_key)": a hit
\* returns the cached bundle, a miss goes on to
\* "await get_price_with_history(symbol, period)"
BundleChecked(c) ==
    LET r == get_cached_indicator(Str(c.symbol), SignalCacheKey(c.symbol, c.period))
        d == [c EXCEPT !.cache_ok = ~get_cache_raises /\ redis_up]
    IN IF r.raised THEN BundleExcept([d EXCEPT !.pc = "done", !.raised = TRUE])
       ELSE IF Truthy(r.value) THEN [d EXCEPT !.pc = "done", !.result = r.value]
       ELSE [d EXCEPT !.pc = "acquire", !.acquisitions = @ + 1]

\* the frame and the store once cache_technical_indicator has answered w on
\* the bundle: await cache_technical_indicator(...); return result
BundleWritten(d, result, w) ==
    [frame |-> BundleExcept([d EXCEPT !.result = result,
                                      !.raised = w.raised,
                                      !.computable = TRUE,
                                      !.writes = @ + (IF w.ok THEN 1 ELSE 0),
                                      !.cache_ok = @ /\ w.ok]),
     store |-> w.store]

\* the bundle is handed to the signal cache with ttl 600
BundleCached(d, result) ==
    BundleWritten(d, result,
                  cache_technical_indicator(Str(d.symbol), SignalCacheKey(d.symbol, d.period),
                                            result, SIGNAL_TTL))

\* the rest of the body on the prices p taken from a record: None below 26
\* prices, the indicator block, the bundle and its write to the signal cache
BundleFromPrices(c, current_price, p) ==
    IF Len(p.prices) < MIN_PRICES
    THEN [frame |-> [c EXCEPT !.prices = p.prices, !.synthetic = p.synthetic,
                              !.result = None],
          store |-> store]
    ELSE IF IndicatorBlockRaises(p.synthetic)
    THEN [frame |-> BundleExcept([c EXCEPT !.prices = p.prices, !.synthetic = p.synthetic,
                                           !.raised = TRUE, !.computable = TRUE,
                                           !.cache_ok = @ /\ redis_up]),
          store |-> store]
    ELSE BundleCached([c EXCEPT !.prices = p.prices, !.synthetic = p.synthetic],
                      BundleOf(c.symbol, c.period, current_price, p.prices, now))

\* the frame c and the store after get_price_with_history has handed its
\* outcome f to the body: the rest of the body, up to the return
BundleComputed(c, f) ==
    IF f.raised
    THEN [frame |-> BundleExcept([c EXCEPT !.pc = "done", !.acquired = f.result,
                                           !.raised = TRUE]),
          store |-> store]
    ELSE IF ~Truthy(f.result)
    THEN [frame |-> [c EXCEPT !.pc = "done", !.acquired = f.result, !.result = None],
          store |-> store]
    ELSE BundleFromPrices([c EXCEPT !.pc = "done", !.acquired = f.result],
                          f.result.current_price, PricesOf(f.result))

\* the frame of the caller and the store take what the body left
BundleInstall(r) == cb' = r.frame /\ store' = r.store

\* await get_cached_indicator(symbol, cache_key), and on a miss the call of
\* get_price_with_history
BundleCheck ==
    /\ cb.pc = "check"
    /\ cb' = BundleChecked(cb)
    /\ gp' = IF cb'.pc = "acquire"
             THEN [gp EXCEPT ![1] = NewFrame(cb.symbol, cb.period)]
             ELSE gp
    /\ UNCHANGED <<now, nticks, ncalls, redis_up, store, cache_manager, settings,
                   _last_request_time, rl, batch, cm, probe, eq, sig, ind, acq, ct, ov, win>>

\* get_price_with_history has returned (or raised): the rest of the body, up
\* to the return
BundleCompute ==
    /\ cb.pc = "acquire" /\ gp[1].pc = "done"
    /\ gp' = [gp EXCEPT ![1] = IdleFrame]
    /\ BundleInstall(BundleComputed(cb, gp[1]))
    /\ UNCHANGED <<now, nticks, ncalls, redis_up, cache_manager, settings,
                   _last_request_time, rl, batch, cm, probe, eq, sig, ind, acq, ct, ov, win>>

\* the caller has the outcome of its compute_signal_bundle call
ReturnBundle ==
    /\ cb.pc = "done"
    /\ cb' = [IdleBundle EXCEPT !.prev = [symbol |-> cb.symbol, period |-> cb.period,
                                          at |-> now, result |-> cb.result,
                                          computable |-> cb.computable,
                                          cache_ok |-> cb.cache_ok]]
    /\ UNCHANGED <<now, nticks, ncalls, redis_up, store, cache_manager, settings,
                   _last_request_time, rl, gp, batch, cm, probe, eq, sig, ind, acq, ct, ov, win>>

-----------------------------------------------------------------------------
(* get_price_with_history run twice from the same state: once under the     *)
(* settings, in which one provider is disabled or unset, and once with that *)
(* provider enabled and giving an answer its adapter turns into None.  The  *)
(* first run is made step by step; the clock, the store and the rate        *)
(* limiter are then put back to where the run began, the provider is        *)
(* switched on and the call is made again, every other provider answering   *)
(* as it did before; the program goes on from the end of the first run.  eq *)
(* keeps the state at the start, the answers given and what each run left.  *)

Providers == {"coingecko", "alpha_vantage", "yahoo_finance"}

\* the adapter of a provider returns None on this answer
ReturnsNone(provider, symbol, response, t) ==
    CASE provider = "coingecko" ->
           _fetch_coingecko_price(Upper(symbol), response, t).value = None
      [] provider = "alpha_vantage" ->
           _fetch_alpha_vantage_price(Upper(symbol), response, t).value = None
      [] provider = "yahoo_finance" ->
           _fetch_yahoo_finance_price(Upper(symbol), response, t).value = None

\* the provider is disabled or unset in configuration cfg: its flag is off,
\* or the primary key is the placeholder
Disabled(cfg, provider) ==
    CASE provider = "coingecko" -> cfg.COINGECKO_ENABLED = FALSE
      [] provider = "alpha_vantage" -> cfg.ALPHA_VANTAGE_API_KEY = "demo"
      [] provider = "yahoo_finance" -> cfg.YAHOO_FINANCE_ENABLED = FALSE

\* configuration cfg with the provider switched on
WithProvider(cfg, provider) ==
    CASE provider = "coingecko" -> [cfg EXCEPT !.COINGECKO_ENABLED = TRUE]
      [] provider = "alpha_vantage" -> [cfg EXCEPT !.ALPHA_VANTAGE_API_KEY = "real-key"]
      [] provider = "yahoo_finance" -> [cfg EXCEPT !.YAHOO_FINANCE_ENABLED = TRUE]

\* d[key] = value
SetItem(d, key, value) == [k \in DOMAIN d \cup {key} |-> IF k = key THEN value ELSE d[k]]

\* what a run starts from and what it leaves outside its frame
World == [now |-> now, store |-> store, last |-> _last_request_time, rl |-> rl,
          writes |-> acq.writes, settings |-> settings]

NoWorld == [now |-> 0, store |-> EmptyDict, last |-> 0,
            rl |-> [returned |-> FALSE, min_gap |-> RATE_LIMIT_DELAY],
            writes |-> <<>>, settings |-> EmptyDict]

\* a run that has ended: what the call raised or returned, the requests and
\* the cache writes it made, and the state it left
RunLeft(f) == [raised |-> f.raised, result |-> f.result, calls |-> f.calls,
               sets |-> f.sets, world |-> World]

NoRun == [raised |-> FALSE, result |-> None, calls |-> <<>>, sets |-> <<>>, world |-> NoWorld]

IdleEquiv == [pc |-> "idle", symbol |-> <<>>, period |-> "", provider |-> "",
              none |-> Timeout, start |-> NoWorld, answers |-> EmptyDict,
              off |-> NoRun, on |-> NoRun]

\* a caller awaits get_price_with_history(symbol, period) while a provider is
\* disabled; none is an answer on which the adapter of that provider returns
\* None
EquivCall ==
    /\ eq.pc \in {"idle", "done"} /\ gp[1].pc = "idle"
    /\ ncalls < MaxCalls
    /\ ncalls' = ncalls + 1
    /\ \E symbol \in Symbols, period \in Periods, provider \in Providers :
         /\ Disabled(settings, provider)
         /\ \E none \in QuoteAnswers(provider) :
              /\ ReturnsNone(provider, symbol, none, now)
              /\ eq' = [IdleEquiv EXCEPT !.pc = "off", !.symbol = symbol, !.period = period,
                                         !.provider = provider, !.none = none,
                                         !.start = World]
         /\ gp' = [gp EXCEPT ![1] = NewFrame(symbol, period)]
    /\ UNCHANGED <<now, nticks, redis_up, store, cache_manager, settings,
                   _last_request_time, rl, cb, batch, cm, probe, sig, ind, acq, ct, ov, win>>

\* the answers the provider of the stage at hand may give: in the second run
\* the provider switched on gives the answer that becomes None and the others
\* answer as in the first run
EquivAnswers(stage) ==
    IF eq.pc = "on" /\ stage = eq.provider THEN {eq.none}
    ELSE IF stage \in DOMAIN eq.answers THEN {eq.answers[stage]}
    ELSE QuoteAnswers(stage)

\* the answer of a provider arrives in either run
EquivHttp ==
    /\ eq.pc \in {"off", "on"}
    /\ InStage(gp[1]) /\ gp[1].at = "http"
    /\ \E response \in EquivAnswers(gp[1].pc) :
         /\ AdapterReturn(1, gp[1], StageAdapter(gp[1], response))
         /\ eq' = [eq EXCEPT !.answers = SetItem(@, gp[1].pc, response)]
    /\ UNCHANGED <<now, nticks, ncalls, redis_up, store, cache_manager, settings,
                   _last_request_time, rl, cb, batch, cm, probe, sig, ind, acq, ct, ov, win>>

\* the first run has returned: back to the state it started from, with the
\* provider switched on, and the same call again
EquivSwitch ==
    /\ eq.pc = "off" /\ gp[1].pc = "done"
    /\ eq' = [eq EXCEPT !.pc = "on", !.off = RunLeft(gp[1])]
    /\ now' = eq.start.now
    /\ store' = eq.start.store
    /\ _last_request_time' = eq.start.last
    /\ rl' = eq.start.rl
    /\ acq' = [acq EXCEPT !.writes = eq.start.writes]
    /\ settings' = WithProvider(settings, eq.provider)
    /\ gp' = [gp EXCEPT ![1] = [NewFrame(eq.symbol, eq.period) EXCEPT !.start = eq.start.now]]
    /\ UNCHANGED <<nticks, ncalls, redis_up, cache_manager, cb, batch, cm, probe,
                   sig, ind, ct, ov, win>>

\* the second run has returned: the two outcomes are side by side, and the
\* program goes on from the end of the first run
EquivReturn ==
    /\ eq.pc = "on" /\ gp[1].pc = "done"
    /\ eq' = [eq EXCEPT !.pc = "done", !.on = RunLeft(gp[1])]
    /\ now' = eq.off.world.now
    /\ store' = eq.off.world.store
    /\ _last_request_time' = eq.off.world.last
    /\ rl' = eq.off.world.rl
    /\ acq' = [acq EXCEPT !.writes = eq.off.world.writes]
    /\ settings' = eq.start.settings
    /\ gp' = [gp EXCEPT ![1] = IdleFrame]
    /\ UNCHANGED <<nticks, ncalls, redis_up, cache_manager, cb, batch, cm, probe,
                   sig, ind, ct, ov, win>>

\* between two pairs of runs the server comes and goes and the cache manager
\* is made
EquivRedisFlip == eq.pc \in {"idle", "done"} /\ RedisFlip

EquivInitCache == eq.pc \in {"idle", "done"} /\ init_cache

-----------------------------------------------------------------------------
(* get_price_with_history called from outside by up to MaxTasks callers at  *)
(* a time, each arriving at any moment, on a stock and on a crypto symbol   *)
(* and on provider answers that carry a zero or a negative price.           *)

AcquireSymbols == { <<"A","A","P","L">>, <<"B","T","C">> }

AcquirePeriods == {"1mo"}

\* two bars of history
TwoBars == SeriesAnswer(TimeSeries(2))

\* the answers of each provider: a failure or a quote, the quote's price zero
\* or negative for some; the secondary adapter takes price 0 for no answer
AcquireAnswers(pc) ==
    CASE pc = "coingecko" ->
           {Timeout, Http(200, Json("bitcoin" :> ("usd" :> Num(0))))}
      [] pc = "alpha_vantage" ->
           {Http(200, Json("Note" :> "API call frequency exceeded"))}
             \cup {Http(200, Json("Global Quote" :> FullQuote(p))) :
                     p \in {<<"1","5","0">>, <<"0">>}}
      [] pc = "history" -> {Http(500, Document(<<>>)), TwoBars}
      [] pc = "yahoo_finance" ->
           {Http(200, Json(YahooChart(YahooMeta(p)))) : p \in {Num(0), Num(0 - 5)}}

IdleAcquire == [log |-> <<>>, writes |-> <<>>]

\* the first task that is not in a call
FreeTask == CHOOSE t \in Tasks : gp[t].pc = "idle" /\ \A u \in Tasks : gp[u].pc = "idle" => t <= u

\* a caller awaits get_price_with_history(symbol, period) on a free task,
\* <<symbol, period>> one of inputs
CallOnFreeTask(inputs) ==
    /\ \E t \in Tasks : gp[t].pc = "idle"
    /\ ncalls < MaxCalls
    /\ ncalls' = ncalls + 1
    /\ \E input \in inputs :
         gp' = [gp EXCEPT ![FreeTask] = NewFrame(input[1], input[2])]
    /\ UNCHANGED <<now, nticks, redis_up, store, cache_manager, settings,
                   _last_request_time, rl, cb, batch, cm, probe, eq, sig, ind, acq, ct, ov, win>>

AcquireCall == CallOnFreeTask(AcquireSymbols \X AcquirePeriods)

\* the answer of a provider arrives at the adapter of task t
AcquireHttp(t) == AdapterHttpFrom(t, AcquireAnswers(gp[t].pc))

\* the caller on task t has the outcome of its call
AcquireReturn(t) ==
    /\ gp[t].pc = "done"
    /\ gp' = [gp EXCEPT ![t] = IdleFrame]
    /\ UNCHANGED <<now, nticks, ncalls, redis_up, store, cache_manager, settings,
                   _last_request_time, rl, cb, batch, cm, probe, eq, sig, ind, acq, ct, ov, win>>

\* the Redis server becomes unreachable, or reachable again, at any moment;
\* the program sees the server only through a GET or a SETEX, so the change
\* is placed before one of these
ServerFlip ==
    /\ \E t \in Tasks : gp[t].pc \in {"lookup", "setex"}
    /\ redis_up' = ~redis_up
    /\ UNCHANGED <<now, nticks, ncalls, store, cache_manager, settings, _last_request_time, rl,
                   gp, cb, batch, cm, probe, eq, sig, ind, acq, ct, ov, win>>


-----------------------------------------------------------------------------
(* get_price_with_history called again: up to MaxTasks callers at a time,   *)
(* each arriving at any moment, ask for one stock symbol in either letter   *)
(* case and for two periods, while the server comes and goes and the TTL of *)
(* a price entry passes between calls. acq.log keeps the calls that have    *)
(* returned, in the order of their returns, and acq.writes the SETEX        *)
(* commands the server has executed.                                        *)

FollowInputs ==
    { <<(<<"a","a","p","l">>), "1mo">>, <<(<<"A","A","P","L">>), "1mo">>,
      <<(<<"A","A","P","L">>), "1y">> }

\* the primary provider quotes or is out of calls; its history has two bars;
\* the secondary provider has no quote
FollowAnswers(pc) ==
    CASE pc = "coingecko" -> CoinGeckoAnswers
      [] pc = "alpha_vantage" -> AlphaVantageAnswers
      [] pc = "history" -> {TwoBars}
      [] pc = "yahoo_finance" -> {Http(200, Invalid)}

FollowCall == CallOnFreeTask(FollowInputs)

\* the answer of a provider arrives at the adapter of task t
FollowHttp(t) == AdapterHttpFrom(t, FollowAnswers(gp[t].pc))

\* the caller on task t has the outcome of its call
FollowReturn(t) ==
    /\ gp[t].pc = "done"
    /\ acq' = [acq EXCEPT !.log = Append(@, [call |-> gp[t], end |-> now])]
    /\ gp' = [gp EXCEPT ![t] = IdleFrame]
    /\ UNCHANGED <<now, nticks, ncalls, redis_up, store, cache_manager, settings,
                   _last_request_time, rl, cb, batch, cm, probe, eq, sig, ind, ct, ov, win>>

\* no call is between two of its steps
AllIdle == \A t \in Tasks : gp[t].pc = "idle"

\* the TTL of a price entry passes between two calls
FollowIdlePrice == AllIdle /\ 0 < ncalls /\ ncalls < MaxCalls /\ IdlePrice

-----------------------------------------------------------------------------
(* CacheManager.set and CacheManager.get called by concurrent tasks.  Each  *)
(* call has one suspension point, the await of the Redis command: the call  *)
(* starts, the server executes its command at some later moment (SETEX and  *)
(* GET are atomic on the server), and later again the task resumes and the  *)
(* call returns.  ct.ops is the list of calls made; each keeps the calls    *)
(* that had returned when it started, the place of its command in the       *)
(* server's order, and the clock at that moment.                            *)

MaxOps == 3       \* calls of the cache made in one run

IdleWriters == [ops |-> <<>>, running |-> [t \in Tasks |-> 0], executed |-> 0]

NewOp(op, k, value) ==
    [op |-> op, key |-> k, value |-> value,
     before |-> {i \in DOMAIN ct.ops : ct.ops[i].returned},
     order |-> 0, time |-> 0, up |-> FALSE, ok |-> FALSE, returned |-> FALSE]

\* a task calls cache.set(key, value, namespace=...) or cache.get(key, namespace)
\* and runs to the await of its Redis command
WriterStart(t) ==
    /\ cache_manager # "None"
    /\ ct.running[t] = 0
    /\ Len(ct.ops) < MaxOps
    /\ \E k \in CacheKeys :
         \/ \E value \in CacheValues :
              ct' = [ct EXCEPT !.ops = Append(@, NewOp("set", k, value)),
                               !.running[t] = Len(ct.ops) + 1]
         \/ ct' = [ct EXCEPT !.ops = Append(@, NewOp("get", k, None)),
                             !.running[t] = Len(ct.ops) + 1]
    /\ UNCHANGED <<now, nticks, ncalls, redis_up, store, cache_manager, settings,
                   _last_request_time, rl, gp, cb, batch, cm, probe, eq, sig, ind, acq, ov, win>>

\* the server executes the command of task t, or the command fails when the
\* server cannot be reached
WriterExecute(t) ==
    /\ ct.running[t] # 0
    /\ ct.ops[ct.running[t]].order = 0
    /\ LET i == ct.running[t]
           o == ct.ops[i]
           r == CacheManager_set(o.key[1], o.value, None, o.key[2])
           done == [o EXCEPT !.order = ct.executed + 1, !.time = now, !.up = redis_up]
       IN IF o.op = "set"
          THEN /\ store' = r.store
               /\ ct' = [ct EXCEPT !.ops[i] = [done EXCEPT !.ok = r.ok],
                                   !.executed = @ + 1]
          ELSE /\ store' = store
               /\ ct' = [ct EXCEPT !.ops[i] =
                                     [done EXCEPT !.ok = redis_up,
                                                  !.value = CacheManager_get(o.key[1], o.key[2], None)],
                                   !.executed = @ + 1]
    /\ UNCHANGED <<now, nticks, ncalls, redis_up, cache_manager, settings,
                   _last_request_time, rl, gp, cb, batch, cm, probe, eq, sig, ind, acq, ov, win>>

\* the task resumes and the call returns
WriterReturn(t) ==
    /\ ct.running[t] # 0
    /\ ct.ops[ct.running[t]].order # 0
    /\ ct' = [ct EXCEPT !.ops[ct.running[t]].returned = TRUE, !.running[t] = 0]
    /\ UNCHANGED <<now, nticks, ncalls, redis_up, store, cache_manager, settings,
                   _last_request_time, rl, gp, cb, batch, cm, probe, eq, sig, ind, acq, ov, win>>

-----------------------------------------------------------------------------
(* get_market_overview (analysis_service.py).  One compute_signal_bundle    *)
(* task per symbol runs under asyncio.gather with return_exceptions=True;   *)
(* task i analyses symbols[i] and the tasks interleave at their suspension  *)
(* points.  A task hands back the dict the signal cache holds for its      *)
(* symbol, or goes through the acquisition.  The signal cache is filled by  *)
(* whoever writes to the Redis server, so the call starts on a store that   *)
(* holds, for each requested symbol but INVALID, a complete bundle, the     *)
(* dict of test_compute_signal_bundle_cached, or a bundle whose signal is   *)
(* none of BUY, SELL and HOLD.                                              *)

OverviewSymbols ==
    { <<"A","A","P","L">>, <<"G","O","O","G","L">>, <<"I","N","V","A","L","I","D">> }

Raised(message) == [exception |-> message]

TestBundle(symbol, signal, confidence, trend_direction, risk_level, current_price, strength) ==
    [symbol |-> symbol, signal |-> signal, confidence |-> confidence,
     trend_direction |-> trend_direction, risk_level |-> risk_level,
     current_price |-> current_price, signal_strength |-> strength]

BundleKinds == {"buy", "sell", "hold", "very strong sell", "cached test", "strong buy"}

\* a dict in the signal cache: the bundles of test_market_overview_success,
\* one very strong signal, the dict of test_compute_signal_bundle_cached, and
\* a bundle with a signal of another vocabulary
CachedBundle(symbol, kind) ==
    CASE kind = "buy" -> TestBundle(symbol, "BUY", 75, "bullish", "medium", 150, STRONG)
      [] kind = "sell" -> TestBundle(symbol, "SELL", 80, "bearish", "low", 2800, STRONG)
      [] kind = "hold" -> TestBundle(symbol, "HOLD", 45, "sideways", "high", 300, WEAK)
      [] kind = "very strong sell" ->
           TestBundle(symbol, "SELL", 90, "bearish", "low", 2800, VERY_STRONG)
      [] kind = "cached test" -> [symbol |-> symbol, signal |-> "BUY", confidence |-> 75]
      [] kind = "strong buy" ->
           TestBundle(symbol, "STRONG_BUY", 95, "bullish", "low", 150, VERY_STRONG)

\* the full key of the bundle of a symbol for the default period
SignalFullKey(symbol) ==
    _generate_key("indicator:" \o Str(symbol) \o ":" \o SignalCacheKey(symbol, "1mo"),
                  "technical")

\* the signal cache holding a bundle of kind kinds[x] for every symbol x of
\* cached, written at time t with the TTL of the signal cache
SignalStore(cached, kinds, t) ==
    [k \in {SignalFullKey(x) : x \in cached} |->
        LET x == CHOOSE y \in cached : SignalFullKey(y) = k
        IN [val |-> Serialize(CachedBundle(Str(x), kinds[x])), exp |-> t + SIGNAL_TTL]]

\* result["signal_strength"] > SignalStrength.STRONG.value
IsStrongAbove(result) == result.signal_strength > STRONG

\* result["signal_strength"] >= SignalStrength.STRONG.value
IsStrong(result) == result.signal_strength >= STRONG

\* the overview before the loop
EmptyOverview(symbols, t) ==
    [timestamp |-> t,
     total_symbols |-> Len(symbols),
     successful_analyses |-> 0,
     signals_summary |-> [BUY |-> 0, SELL |-> 0, HOLD |-> 0],
     strong_signals |-> <<>>,
     symbols |-> EmptyDict]

\* str(KeyError(key))
KeyError(key) == "'" \o key \o "'"

RECURSIVE FirstMissing(_, _)
\* the first of keys that dict d lacks, as a list of one; empty when d has
\* them all
FirstMissing(d, keys) ==
    IF keys = <<>> THEN <<>>
    ELSE IF Head(keys) \notin DOMAIN d THEN <<Head(keys)>>
    ELSE FirstMissing(d, Tail(keys))

\* the KeyError one pass of the loop raises on result, as a list of one
\* message: lines 662-676 read result["signal"], index signals_summary with
\* it, then read "signal_strength", "confidence", "trend_direction",
\* "risk_level" and "current_price"
StepError(result) ==
    IF IsException(result) \/ ~Truthy(result) THEN <<>>
    ELSE IF "signal" \notin DOMAIN result THEN <<KeyError("signal")>>
    ELSE IF result.signal \notin {"BUY", "SELL", "HOLD"} THEN <<KeyError(result.signal)>>
    ELSE LET missing == FirstMissing(result, <<"signal_strength", "confidence",
                                               "trend_direction", "risk_level",
                                               "current_price">>)
         IN IF missing = <<>> THEN <<>> ELSE <<KeyError(missing[1])>>

\* one pass of "for symbol, result in zip(symbols, results)" that raises
\* nothing
OverviewStep(overview, symbol, result) ==
    IF IsException(result)
    THEN [overview EXCEPT !.symbols = SetItem(@, symbol, [error |-> result.exception])]
    ELSE IF Truthy(result)
    THEN [overview EXCEPT
            !.successful_analyses = @ + 1,
            !.signals_summary[result.signal] = @ + 1,
            !.strong_signals = IF IsStrong(result)
                               THEN Append(@, [symbol |-> symbol, signal |-> result.signal,
                                               confidence |-> result.confidence])
                               ELSE @,
            !.symbols = SetItem(@, symbol, [signal |-> result.signal,
                                            confidence |-> result.confidence,
                                            trend |-> result.trend_direction,
                                            risk |-> result.risk_level,
                                            price |-> result.current_price])]
    ELSE [overview EXCEPT !.symbols = SetItem(@, symbol, [error |-> "No data available"])]

RECURSIVE OverviewLoop(_, _, _)
\* the loop over the first n pairs: the overview so far, and the message of
\* the exception that ended the loop, if one did
OverviewLoop(symbols, results, n) ==
    IF n = 0 THEN [raised |-> <<>>, overview |-> EmptyOverview(symbols, now)]
    ELSE LET before == OverviewLoop(symbols, results, n - 1)
         IN IF before.raised # <<>> THEN before
            ELSE IF StepError(results[n]) # <<>>
            THEN [before EXCEPT !.raised = StepError(results[n])]
            ELSE [before EXCEPT !.overview = OverviewStep(@, Str(symbols[n]), results[n])]

\* lines 636-685 on the gathered results: the overview, or {"error": str(e)}
\* when the loop raised
get_market_overview(symbols, results) ==
    LET loop == OverviewLoop(symbols, results, Len(symbols))
    IN IF loop.raised # <<>> THEN [error |-> loop.raised[1]] ELSE loop.overview

IdleOverview == [pc |-> "idle", symbols |-> <<>>, tasks |-> <<>>, results |-> <<>>,
                 out |-> EmptyOverview(<<>>, 0)]

\* the calls about to be made on n symbols
OverviewCalls(n) ==
    { [IdleOverview EXCEPT !.pc = "called", !.symbols = symbols] :
        symbols \in [1..n -> OverviewSymbols] }

\* the symbol for which the signal cache holds nothing
Uncached == <<"I","N","V","A","L","I","D">>

\* the stores a call on these symbols may start on: a bundle of some kind
\* for each symbol of the list but the uncached one
SignalStores(symbols, t) ==
    LET cached == {symbols[i] : i \in DOMAIN symbols} \ {Uncached}
    IN { SignalStore(cached, kinds, t) : kinds \in [cached -> BundleKinds] }

\* await get_market_overview(symbols): line 640 makes one
\* compute_signal_bundle(symbol) coroutine per symbol, for the default
\* period, and gather starts them
CallGetMarketOverview ==
    /\ ov.pc = "called"
    /\ ov' = [ov EXCEPT !.pc = "gather",
                        !.tasks = [i \in 1..Len(ov.symbols) |->
                                     [IdleBundle EXCEPT !.pc = "check",
                                                        !.symbol = ov.symbols[i],
                                                        !.period = "1mo"]]]
    /\ UNCHANGED <<now, nticks, ncalls, redis_up, store, cache_manager, settings,
                   _last_request_time, rl, gp, cb, batch, cm, probe, eq, sig, ind, acq, ct, win>>

\* task t awaits get_cached_indicator, and on a miss calls
\* get_price_with_history
OverviewCheck(t) ==
    /\ ov.pc = "gather" /\ t \in DOMAIN ov.tasks
    /\ ov.tasks[t].pc = "check"
    /\ ov' = [ov EXCEPT !.tasks[t] = BundleChecked(ov.tasks[t])]
    /\ gp' = IF ov'.tasks[t].pc = "acquire"
             THEN [gp EXCEPT ![t] = NewFrame(ov.tasks[t].symbol, ov.tasks[t].period)]
             ELSE gp
    /\ UNCHANGED <<now, nticks, ncalls, redis_up, store, cache_manager, settings,
                   _last_request_time, rl, cb, batch, cm, probe, eq, sig, ind, acq, ct, win>>

\* the frame of task t and the store take what the body left
OverviewInstall(t, r) == ov' = [ov EXCEPT !.tasks[t] = r.frame] /\ store' = r.store

\* the acquisition of task t has returned: the rest of compute_signal_bundle
OverviewCompute(t) ==
    /\ ov.pc = "gather" /\ t \in DOMAIN ov.tasks
    /\ ov.tasks[t].pc = "acquire" /\ gp[t].pc = "done"
    /\ gp' = [gp EXCEPT ![t] = IdleFrame]
    /\ OverviewInstall(t, BundleComputed(ov.tasks[t], gp[t]))
    /\ UNCHANGED <<now, nticks, ncalls, redis_up, cache_manager, settings,
                   _last_request_time, rl, cb, batch, cm, probe, eq, sig, ind, acq, ct, win>>

\* what gather puts in results for a task: its return value, or the
\* exception it raised
BundleGathered(c) == IF c.raised THEN Raised("") ELSE c.result

\* every task is done: gather returns the results in the order of the
\* symbols, the loop fills the overview and the function returns
OverviewReturn ==
    /\ ov.pc = "gather"
    /\ \A t \in DOMAIN ov.tasks : ov.tasks[t].pc = "done"
    /\ LET results == [t \in DOMAIN ov.tasks |-> BundleGathered(ov.tasks[t])]
       IN ov' = [ov EXCEPT !.pc = "returned", !.results = results,
                           !.out = get_market_overview(ov.symbols, results)]
    /\ UNCHANGED <<now, nticks, ncalls, redis_up, store, cache_manager, settings,
                   _last_request_time, rl, gp, cb, batch, cm, probe, eq, sig, ind, acq, ct, win>>

-----------------------------------------------------------------------------
(* The window of history: compute_signal_bundle called while the primary    *)
(* provider quotes and sends the drawn series as its daily history, so that *)
(* the record passes through _fetch_alpha_vantage_history,                  *)
(* get_price_with_history and the price cache before lines 558-565 take its *)
(* closes.  The series is drawn newest first (the provider's order), oldest *)
(* first, or with its two halves swapped.  No record the program acquires   *)
(* has more than 30 bars, so the list comprehension of line 560 is also     *)
(* applied, by itself, to the bars of the whole series.                     *)

MaxBars == 52     \* longest provider series drawn

\* the series with its two halves swapped
Swapped(series) ==
    LET h == Len(series) \div 2
    IN SubSeq(series, h + 1, Len(series)) \o SubSeq(series, 1, h)

Reversed(series) == [i \in 1..Len(series) |-> series[Len(series) + 1 - i]]

SeriesChoices(n) == {TimeSeries(n), Reversed(TimeSeries(n)), Swapped(TimeSeries(n))}

IdleWindow == [series |-> <<>>, taken |-> FALSE, closes |-> <<>>]

\* every bar of the provider series, in the order of the series
SeriesBars == [i \in DOMAIN win.series |-> ParsedBar(win.series[i]).bar]

\* prices = [float(h["close"]) for h in history[-50:]] with the bars of the
\* series for history
TakeCloses ==
    /\ ~win.taken
    /\ cb.pc = "idle" /\ ncalls = 0
    /\ win' = [win EXCEPT !.taken = TRUE, !.closes = ClosesOf(SeriesBars)]
    /\ UNCHANGED <<now, nticks, ncalls, redis_up, store, cache_manager, settings,
                   _last_request_time, rl, gp, cb, batch, cm, probe, eq, sig, ind, acq, ct, ov>>

\* what the providers answer: the primary provider sends the drawn series
\* when asked for its history
WindowAnswers(pc) == IF pc = "history" THEN {SeriesAnswer(win.series)} ELSE QuoteAnswers(pc)

\* the answer of a provider arrives at the adapter of the acquisition
WindowHttp == AdapterHttpFrom(1, WindowAnswers(gp[1].pc))

-----------------------------------------------------------------------------
(* Specifications *)

\* the loop's monotonic clock has run for at least the delay when the module
\* is first used: _last_request_time = 0 lies RATE_LIMIT_DELAY in the past
InitCommon ==
    /\ now = RATE_LIMIT_DELAY
    /\ nticks = 0
    /\ ncalls = 0
    /\ redis_up \in BOOLEAN
    /\ store = EmptyDict
    /\ cache_manager = "None"
    /\ settings \in SettingsChoices
    /\ _last_request_time = 0
    /\ rl = [returned |-> FALSE, min_gap |-> RATE_LIMIT_DELAY]
    /\ gp = [t \in Tasks |-> IdleFrame]
    /\ cb = IdleBundle
    /\ batch = IdleBatch
    /\ cm = IdleCache
    /\ probe = IdleProbe
    /\ eq = IdleEquiv
    /\ sig = IdleSignals
    /\ ind = IdleIndicator
    /\ acq = IdleAcquire
    /\ ct = IdleWriters
    /\ ov = IdleOverview
    /\ win = IdleWindow

Init == InitCommon

Next ==
    \/ Tick
    \/ RedisFlip
    \/ init_cache
    \/ CallGetPrice
    \/ GpStep(1)
    \/ ReturnGetPrice

Spec == Init /\ [][Next]_vars

\* callers of compute_signal_bundle, one call at a time
NextBundle ==
    \/ Tick
    \/ RedisFlip
    \/ init_cache
    \/ CallComputeSignalBundle
    \/ BundleCheck
    \/ GpStep(1)
    \/ BundleCompute
    \/ ReturnBundle

\* every provider configured
InitBundle ==
    /\ InitCommon
    /\ settings = AllProviders(DEVELOPMENT_CACHE_TTL)

SpecBundle == InitBundle /\ [][NextBundle]_vars

\* callers of get_multiple_prices with every provider configured; the
\* tasks of a call interleave at their suspension points
InitBatch ==
    /\ now = RATE_LIMIT_DELAY
    /\ nticks = 0
    /\ ncalls = 0
    /\ redis_up = TRUE
    /\ store = EmptyDict
    /\ cache_manager = "None"
    /\ settings = AllProviders(DEVELOPMENT_CACHE_TTL)
    /\ _last_request_time = 0
    /\ rl = [returned |-> FALSE, min_gap |-> RATE_LIMIT_DELAY]
    /\ gp = [t \in Tasks |-> IdleFrame]
    /\ cb = IdleBundle
    /\ batch = IdleBatch
    /\ cm = IdleCache
    /\ probe = IdleProbe
    /\ eq = IdleEquiv
    /\ sig = IdleSignals
    /\ ind = IdleIndicator
    /\ acq = IdleAcquire
    /\ ct = IdleWriters
    /\ ov = IdleOverview
    /\ win = IdleWindow

NextBatch ==
    \/ Tick
    \/ init_cache
    \/ CallGetMultiplePrices
    \/ \E t \in Tasks : GpStep(t)
    \/ Gather
    \/ ReturnBatch

SpecBatch == InitBatch /\ [][NextBatch]_vars

\* a CacheManager in use by direct callers, time passing and the server
\* coming and going
InitCache ==
    /\ now = RATE_LIMIT_DELAY
    /\ nticks = 0
    /\ ncalls = 0
    /\ redis_up = TRUE
    /\ store = EmptyDict
    /\ cache_manager = "CacheManager"
    /\ settings \in {AllProviders(DEVELOPMENT_CACHE_TTL), AllProviders(PRODUCTION_CACHE_TTL)}
    /\ _last_request_time = 0
    /\ rl = [returned |-> FALSE, min_gap |-> RATE_LIMIT_DELAY]
    /\ gp = [t \in Tasks |-> IdleFrame]
    /\ cb = IdleBundle
    /\ batch = IdleBatch
    /\ cm = IdleCache
    /\ probe = IdleProbe
    /\ eq = IdleEquiv
    /\ sig = IdleSignals
    /\ ind = IdleIndicator
    /\ acq = IdleAcquire
    /\ ct = IdleWriters
    /\ ov = IdleOverview
    /\ win = IdleWindow

NextCache ==
    \/ CacheSet
    \/ CacheGet
    \/ CacheDelete
    \/ CacheClearNamespace
    \/ CacheClearNamespaceDelete
    \/ Tick
    \/ Idle
    \/ RedisFlip

SpecCache == InitCache /\ [][NextCache]_vars

\* one direct call of one adapter, for every answer of its provider, the
\* module fresh or just after a request
InitAdapters ==
    /\ now = RATE_LIMIT_DELAY
    /\ nticks = 0
    /\ ncalls = 0
    /\ redis_up = TRUE
    /\ store = EmptyDict
    /\ cache_manager = "None"
    /\ settings = AllProviders(DEVELOPMENT_CACHE_TTL)
    /\ \/ /\ _last_request_time = 0
          /\ rl = [returned |-> FALSE, min_gap |-> RATE_LIMIT_DELAY]
       \/ /\ _last_request_time = now
          /\ rl = [returned |-> TRUE, min_gap |-> RATE_LIMIT_DELAY]
    /\ gp = [t \in Tasks |-> IdleFrame]
    /\ cb = IdleBundle
    /\ batch = IdleBatch
    /\ cm = IdleCache
    /\ \E a \in Adapters : probe \in ProbeInputs(a)
    /\ eq = IdleEquiv
    /\ sig = IdleSignals
    /\ ind = IdleIndicator
    /\ acq = IdleAcquire
    /\ ct = IdleWriters
    /\ ov = IdleOverview
    /\ win = IdleWindow

NextAdapters ==
    \/ Tick
    \/ ProbeEnter
    \/ ProbeWake
    \/ ProbeAlphaVantagePrice
    \/ ProbeAlphaVantageHistory
    \/ ProbeYahooFinancePrice
    \/ ProbeCoinGeckoPrice

SpecAdapters == InitAdapters /\ [][NextAdapters]_vars

\* pairs of runs of get_price_with_history under every configuration and
\* its counterpart, the cache manager and the server coming up or not
\* between them
InitEquiv ==
    /\ now = RATE_LIMIT_DELAY
    /\ nticks = 0
    /\ ncalls = 0
    /\ redis_up \in BOOLEAN
    /\ store = EmptyDict
    /\ cache_manager = "None"
    /\ settings \in DevelopmentChoices
    /\ _last_request_time = 0
    /\ rl = [returned |-> FALSE, min_gap |-> RATE_LIMIT_DELAY]
    /\ gp = [t \in Tasks |-> IdleFrame]
    /\ cb = IdleBundle
    /\ batch = IdleBatch
    /\ cm = IdleCache
    /\ probe = IdleProbe
    /\ eq = IdleEquiv
    /\ sig = IdleSignals
    /\ ind = IdleIndicator
    /\ acq = IdleAcquire
    /\ ct = IdleWriters
    /\ ov = IdleOverview
    /\ win = IdleWindow

NextEquiv ==
    \/ EquivCall
    \/ GpControl(1)
    \/ EquivHttp
    \/ SleepOver
    \/ EquivSwitch
    \/ EquivReturn
    \/ EquivRedisFlip
    \/ EquivInitCache

SpecEquiv == InitEquiv /\ [][NextEquiv]_vars

\* one call of generate_trading_signals for every choice of its arguments
InitSignals ==
    /\ now = RATE_LIMIT_DELAY
    /\ nticks = 0
    /\ ncalls = 0
    /\ redis_up = TRUE
    /\ store = EmptyDict
    /\ cache_manager = "None"
    /\ settings = AllProviders(DEVELOPMENT_CACHE_TTL)
    /\ _last_request_time = 0
    /\ rl = [returned |-> FALSE, min_gap |-> RATE_LIMIT_DELAY]
    /\ gp = [t \in Tasks |-> IdleFrame]
    /\ cb = IdleBundle
    /\ batch = IdleBatch
    /\ cm = IdleCache
    /\ probe = IdleProbe
    /\ eq = IdleEquiv
    /\ sig \in { [pc |-> "called", args |-> a, out |-> NoSignals] : a \in SignalArguments }
    /\ ind = IdleIndicator
    /\ acq = IdleAcquire
    /\ ct = IdleWriters
    /\ ov = IdleOverview
    /\ win = IdleWindow

NextSignals == CallGenerateTradingSignals

SpecSignals == InitSignals /\ [][NextSignals]_vars

\* one call of one indicator function for every choice of its arguments
InitIndicators ==
    /\ now = RATE_LIMIT_DELAY
    /\ nticks = 0
    /\ ncalls = 0
    /\ redis_up = TRUE
    /\ store = EmptyDict
    /\ cache_manager = "None"
    /\ settings = AllProviders(DEVELOPMENT_CACHE_TTL)
    /\ _last_request_time = 0
    /\ rl = [returned |-> FALSE, min_gap |-> RATE_LIMIT_DELAY]
    /\ gp = [t \in Tasks |-> IdleFrame]
    /\ cb = IdleBundle
    /\ batch = IdleBatch
    /\ cm = IdleCache
    /\ probe = IdleProbe
    /\ eq = IdleEquiv
    /\ sig = IdleSignals
    /\ acq = IdleAcquire
    /\ ct = IdleWriters
    /\ ov = IdleOverview
    /\ win = IdleWindow
    /\ \/ ind \in OnePeriodCalls
       \/ ind \in MacdCalls
       \/ ind \in StochasticCalls

NextIndicators == CallIndicator

SpecIndicators == InitIndicators /\ [][NextIndicators]_vars

\* concurrent tasks calling the cache, the server reachable, entries expiring
InitWriters == InitCache

NextWriters ==
    \/ \E t \in Tasks : WriterStart(t)
    \/ \E t \in Tasks : WriterExecute(t)
    \/ \E t \in Tasks : WriterReturn(t)
    \/ Idle

SpecWriters == InitWriters /\ [][NextWriters]_vars

\* callers of compute_signal_bundle while the primary provider sends a
\* series of up to MaxBars bars
InitWindow ==
    /\ now = RATE_LIMIT_DELAY
    /\ nticks = 0
    /\ ncalls = 0
    /\ redis_up = TRUE
    /\ store = EmptyDict
    /\ cache_manager = "CacheManager"
    /\ settings = AllProviders(DEVELOPMENT_CACHE_TTL)
    /\ \/ /\ _last_request_time = 0
          /\ rl = [returned |-> FALSE, min_gap |-> RATE_LIMIT_DELAY]
       \/ /\ _last_request_time = now
          /\ rl = [returned |-> TRUE, min_gap |-> RATE_LIMIT_DELAY]
    /\ gp = [t \in Tasks |-> IdleFrame]
    /\ cb = IdleBundle
    /\ batch = IdleBatch
    /\ cm = IdleCache
    /\ probe = IdleProbe
    /\ eq = IdleEquiv
    /\ sig = IdleSignals
    /\ ind = IdleIndicator
    /\ acq = IdleAcquire
    /\ ct = IdleWriters
    /\ ov = IdleOverview
    /\ \E n \in 0..MaxBars : \E series \in SeriesChoices(n) :
         win = [IdleWindow EXCEPT !.series = series]

NextWindow ==
    \/ TakeCloses
    \/ CallComputeSignalBundle
    \/ BundleCheck
    \/ GpControl(1)
    \/ WindowHttp
    \/ SleepOver
    \/ BundleCompute
    \/ ReturnBundle

SpecWindow == InitWindow /\ [][NextWindow]_vars

\* get_market_overview called from outside on up to MaxTasks symbols, the
\* signal cache holding bundles for some of them
InitOverview ==
    /\ now = RATE_LIMIT_DELAY
    /\ nticks = 0
    /\ ncalls = 0
    /\ redis_up = TRUE
    /\ cache_manager = "CacheManager"
    /\ settings = AllProviders(DEVELOPMENT_CACHE_TTL)
    /\ _last_request_time = 0
    /\ rl = [returned |-> FALSE, min_gap |-> RATE_LIMIT_DELAY]
    /\ gp = [t \in Tasks |-> IdleFrame]
    /\ cb = IdleBundle
    /\ batch = IdleBatch
    /\ cm = IdleCache
    /\ probe = IdleProbe
    /\ eq = IdleEquiv
    /\ sig = IdleSignals
    /\ ind = IdleIndicator
    /\ acq = IdleAcquire
    /\ ct = IdleWriters
    /\ win = IdleWindow
    /\ \E n \in 0..MaxTasks : \E call \in OverviewCalls(n) :
         /\ ov = call
         /\ store \in SignalStores(call.symbols, RATE_LIMIT_DELAY)

NextOverview ==
    \/ CallGetMarketOverview
    \/ \E t \in Tasks : OverviewCheck(t)
    \/ \E t \in Tasks : GpStep(t)
    \/ SleepOver
    \/ \E t \in Tasks : OverviewCompute(t)
    \/ OverviewReturn

SpecOverview == InitOverview /\ [][NextOverview]_vars

\* get_price_with_history called from outside by callers that may overlap,
\* in the development environment with every provider configured, the Redis
\* server reachable or not
InitAcquire ==
    /\ now = RATE_LIMIT_DELAY
    /\ nticks = 0
    /\ ncalls = 0
    /\ redis_up \in BOOLEAN
    /\ store = EmptyDict
    /\ cache_manager = "CacheManager"
    /\ settings = AllProviders(DEVELOPMENT_CACHE_TTL)
    /\ _last_request_time = 0
    /\ rl = [returned |-> FALSE, min_gap |-> RATE_LIMIT_DELAY]
    /\ gp = [t \in Tasks |-> IdleFrame]
    /\ cb = IdleBundle
    /\ batch = IdleBatch
    /\ cm = IdleCache
    /\ probe = IdleProbe
    /\ eq = IdleEquiv
    /\ sig = IdleSignals
    /\ ind = IdleIndicator
    /\ acq = IdleAcquire
    /\ ct = IdleWriters
    /\ ov = IdleOverview
    /\ win = IdleWindow

NextAcquire ==
    \/ AcquireCall
    \/ \E t \in Tasks : GpControl(t)
    \/ \E t \in Tasks : AcquireHttp(t)
    \/ SleepOver
    \/ \E t \in Tasks : AcquireReturn(t)

SpecAcquire == InitAcquire /\ [][NextAcquire]_vars

\* get_price_with_history called again for the same stock, every provider
\* configured, the Redis server coming and going
InitFollow == InitAcquire

NextFollow ==
    \/ FollowCall
    \/ \E t \in Tasks : GpControl(t)
    \/ \E t \in Tasks : FollowHttp(t)
    \/ SleepOver
    \/ \E t \in Tasks : FollowReturn(t)
    \/ FollowIdlePrice
    \/ ServerFlip

SpecFollow == InitFollow /\ [][NextFollow]_vars

-----------------------------------------------------------------------------
(* Properties of get_price_with_history, checked under Spec *)

\* the calls of the quote adapters a frame has made, in order
QuoteCalls(f) == SelectSeq(f.calls, LAMBDA c : c.name # "history")

StageIndex(name) == CHOOSE i \in 1..Len(Stages) : Stages[i] = name

\* C2: on a cache miss the quote adapters run one after another in the
\* fallback order CoinGecko, Alpha Vantage, Yahoo Finance; no adapter runs
\* after one that returned a quote, and the result of the call carries the
\* fields of that first quote.
C2_FallbackOrder ==
    \A t \in Tasks :
        LET f == gp[t]
            q == QuoteCalls(f)
        IN /\ \A i, j \in 1..Len(q) :
                i < j => StageIndex(q[i].name) < StageIndex(q[j].name) /\ ~q[i].ok
           /\ (f.pc = "done" /\ ~f.raised /\ Truthy(f.quote)) =>
                \A k \in DOMAIN f.quote : f.result[k] = f.quote[k]
           /\ (f.pc = "done" /\ ~f.raised /\ f.calls # <<>> /\ ~Truthy(f.quote)) =>
                f.result = None

\* C2 witness: CoinGecko returned None, Alpha Vantage returned a quote, and
\* the call has returned it without asking Yahoo Finance, which is enabled.
C2_Witness ==
    LET f == gp[1]
        q == QuoteCalls(f)
    IN /\ f.pc = "done" /\ ~f.raised
       /\ Len(q) = 2
       /\ q[1].name = "coingecko" /\ ~q[1].ok
       /\ q[2].name = "alpha_vantage" /\ q[2].ok
       /\ settings.YAHOO_FINANCE_ENABLED
       /\ f.result.source = f.quote.source
       /\ f.result.current_price = f.quote.current_price

\* C3: when the price cache holds an entry for (upper-cased symbol, period)
\* at the lookup, the call returns exactly that entry, calls no adapter,
\* waits on no rate limiter and writes nothing to the cache.
C3_CacheHitShortCircuits ==
    \A t \in Tasks :
        LET f == gp[t]
        IN (f.pc \notin {"idle", "lookup"} /\ f.held # None) =>
             /\ f.pc = "done" /\ ~f.raised
             /\ f.result = f.held
             /\ f.calls = <<>>
             /\ f.rl_calls = 0
             /\ f.writes = 0

\* C3 witness: a call with a lower-case symbol has returned the entry an
\* earlier call had stored.
C3_Witness ==
    /\ gp[1].pc = "done"
    /\ gp[1].held # None
    /\ gp[1].symbol # Upper(gp[1].symbol)
    /\ gp[1].result = gp[1].held
    /\ gp[1].calls = <<>>

\* C4: a call during which a cache operation failed, the store being
\* unreachable or the cache manager not initialised, does not raise: it
\* returns what the adapters gave.
C4_CacheFailureNeverAborts ==
    \A t \in Tasks :
        LET f == gp[t]
        IN (f.pc = "done" /\ f.cache_failed) =>
             /\ ~f.raised
             /\ f.result = (IF Truthy(f.quote) THEN CombineResult(f) ELSE None)

\* C4, the part that holds: with the cache manager initialised, a call
\* during which the store was unreachable returns what the adapters gave.
C4_UnreachableStoreIsAMiss ==
    \A t \in Tasks :
        LET f == gp[t]
        IN (f.pc = "done" /\ f.cache_failed /\ cache_manager # "None") =>
             /\ ~f.raised
             /\ f.result = (IF Truthy(f.quote) THEN CombineResult(f) ELSE None)

\* C4 witness: the call found the cache manager missing at its lookup.
C4_Witness ==
    /\ gp[1].pc = "done"
    /\ gp[1].cache_failed
    /\ cache_manager = "None"
    /\ gp[1].raised
    /\ gp[1].calls = <<>>

\* C11: within one acquisition each adapter is invoked at most once; when
\* every adapter that was tried returned None the call returns None and has
\* written nothing to the cache.
C11_TotalFailureIsNoneWithoutRetry ==
    \A t \in Tasks :
        LET f == gp[t]
        IN /\ \A i, j \in 1..Len(f.calls) : f.calls[i].name = f.calls[j].name => i = j
           /\ (f.pc = "done" /\ ~f.raised /\ f.calls # <<>> /\ ~Truthy(f.quote)) =>
                (f.result = None /\ f.writes = 0)
           /\ (f.pc = "done" /\ ~f.raised /\ f.result = None) => f.writes = 0

\* C11 witness: CoinGecko, Alpha Vantage and Yahoo Finance were each asked
\* once, each returned None, and the call has returned None with the cache
\* reachable and untouched.
C11_Witness ==
    LET f == gp[1]
    IN /\ f.pc = "done" /\ ~f.raised
       /\ Len(f.calls) = 3
       /\ \A i \in 1..3 : ~f.calls[i].ok /\ f.calls[i].http = 1
       /\ f.result = None /\ f.writes = 0
       /\ redis_up /\ cache_manager # "None"
       /\ store = EmptyDict

-----------------------------------------------------------------------------
(* Properties of the source adapters, checked under SpecAdapters *)

\* a timeout of the request
IsTimeout(r) == r.kind = "timeout"
\* a status other than 200
IsNon200(r) == r.kind = "http" /\ r.status # 200
\* a body that is not JSON
IsMalformed(r) == r.kind = "http" /\ r.status = 200 /\ r.body.t = "invalid"
\* a JSON object carrying the provider's error message or its quota note
IsErrorOrNote(adapter, r) ==
    /\ r.kind = "http" /\ r.status = 200 /\ r.body.t = "dict"
    /\ IF adapter = "history"
       THEN HasKey(r.body.d, ErrorMessageKey) \/ HasKey(r.body.d, NoteKey)
       ELSE "Error Message" \in DOMAIN r.body.d \/ "Note" \in DOMAIN r.body.d
\* JSON of another shape than the adapter reads: a list, an object without
\* the quote or the series, a quote without a price, a price that is no
\* number, a bar without its close, a chart entry without its meta
IsUnexpectedSchema(adapter, symbol, r) ==
    /\ r.kind = "http" /\ r.status = 200 /\ ~IsErrorOrNote(adapter, r)
    /\ \/ r.body.t = "list"
       \/ /\ r.body.t = "dict"
          /\ CASE adapter = "alpha_vantage" ->
                     \/ "Global Quote" \notin DOMAIN r.body.d
                     \/ "05. price" \notin DOMAIN r.body.d["Global Quote"]
                     \/ ~ParseFloat(r.body.d["Global Quote"]["05. price"]).ok
               [] adapter = "history" ->
                     \/ TimeSeriesKey(r.body.d) = <<>>
                     \/ "object" \notin DOMAIN ValueAt(r.body.d, TimeSeriesKey(r.body.d))
                     \/ \E i \in 1..Len(ValueAt(r.body.d, TimeSeriesKey(r.body.d)).object) :
                          "4. close" \notin
                             DOMAIN ValueAt(r.body.d, TimeSeriesKey(r.body.d)).object[i].values
               [] adapter = "yahoo_finance" ->
                     \/ "chart" \notin DOMAIN r.body.d
                     \/ "result" \notin DOMAIN r.body.d["chart"]
                     \/ r.body.d["chart"]["result"] = None
                     \/ r.body.d["chart"]["result"] = JsonArray(<<>>)
                     \/ "meta" \notin DOMAIN r.body.d["chart"]["result"].list[1]
                     \/ "regularMarketPrice" \notin DOMAIN r.body.d["chart"]["result"].list[1]["meta"]
               [] adapter = "coingecko" ->
                     /\ Str(Upper(symbol)) \in DOMAIN crypto_id_map
                     /\ \/ crypto_id_map[Str(Upper(symbol))] \notin DOMAIN r.body.d
                        \/ "usd" \notin DOMAIN r.body.d[crypto_id_map[Str(Upper(symbol))]]

IsFailure(adapter, symbol, r) ==
    \/ IsTimeout(r) \/ IsNon200(r) \/ IsMalformed(r) \/ IsErrorOrNote(adapter, r)
    \/ IsUnexpectedSchema(adapter, symbol, r)

\* C10: an adapter that has returned did not raise and made at most one
\* HTTP call; on a non-200 status, an error payload, a quota note, a
\* malformed body, a timeout or an unexpected schema its outcome is None.
C10_AdaptersCollapseFailures ==
    probe.pc = "returned" =>
        /\ ~probe.out.raised
        /\ probe.out.http <= 1
        /\ IsFailure(probe.adapter, probe.symbol, probe.response) => probe.out.value = None

\* C10 witness: the request of an adapter timed out and the adapter has
\* returned None after its one HTTP call.
C10_Witness ==
    /\ probe.pc = "returned"
    /\ IsTimeout(probe.response)
    /\ probe.out.http = 1
    /\ probe.out.value = None
    /\ ~probe.out.raised

-----------------------------------------------------------------------------
(* Properties of CacheManager, checked under SpecCache *)

\* the last operation was a get of a key whose last successful set passed
\* the integer ttl n, and the get came n seconds or more after that set
ReadPastTtl(n) ==
    /\ cm.last.op = "get"
    /\ cm.last.key \in DOMAIN cm.sets
    /\ cm.sets[cm.last.key].ttl = PyInt(n)
    /\ cm.last.at >= cm.sets[cm.last.key].at + n

\* C5: a get of a key at or after ttl seconds past the set of that key
\* returns miss (the default None), for every ttl the caller passed.
C5_ReadPastTtlMisses ==
    \A n \in {t.int : t \in TtlChoices \ {None}} : ReadPastTtl(n) => cm.last.value = None

\* C5, the part that holds: the same for every ttl other than 0.
C5_ReadPastNonzeroTtlMisses ==
    \A n \in {t.int : t \in TtlChoices \ {None}} \ {0} : ReadPastTtl(n) => cm.last.value = None

\* C5 witness: set(key, value, ttl = 0) returned True and a get of the key
\* at the same second returned the value.
C5_Witness ==
    /\ ReadPastTtl(0)
    /\ cm.last.at = cm.sets[cm.last.key].at
    /\ cm.last.value = cm.sets[cm.last.key].value

-----------------------------------------------------------------------------
(* Properties of compute_signal_bundle, checked under SpecBundle *)

\* the call missed the signal cache and its price acquisition returned a
\* record whose history has at least MIN_PRICES closes, with the cache
\* reachable the whole time
AcquiredEnoughHistory ==
    /\ cb.pc = "done"
    /\ cb.acquisitions = 1
    /\ cb.acquired # None
    /\ Len(cb.acquired.history) >= MIN_PRICES
    /\ cb.cache_ok /\ redis_up /\ cache_manager # "None"

BundleFields == {"symbol", "signal", "confidence", "indicators", "macd", "bollinger_bands",
                 "stochastic", "individual_signals"}

\* C7: on a signal-cache miss with a record of at least 26 closes the call
\* returns a bundle with the upper-cased symbol and the signal, confidence,
\* indicators, macd, bollinger_bands, stochastic and individual_signals
\* fields, and has written it to the signal cache exactly once.
C7_BundleOnEnoughHistory ==
    AcquiredEnoughHistory =>
        /\ cb.result # None
        /\ BundleFields \subseteq DOMAIN cb.result
        /\ cb.result.symbol = Str(Upper(cb.symbol))
        /\ cb.writes = 1

\* C7 witness: such a call has returned None and has written nothing.
C7_Witness ==
    /\ AcquiredEnoughHistory
    /\ cb.result = None
    /\ cb.writes = 0

\* the call follows a call of the same (symbol, period) made less than
\* SIGNAL_TTL seconds before, which had the data for a bundle, with the
\* cache reachable during both
RepeatedWithinTtl ==
    /\ cb.pc = "done"
    /\ cb.prev.symbol = cb.symbol /\ cb.prev.period = cb.period
    /\ cb.prev.computable
    /\ now - cb.prev.at < SIGNAL_TTL
    /\ cb.prev.cache_ok /\ cb.cache_ok /\ redis_up

\* C8: the second of two calls for the same (symbol, period) within the
\* signal TTL returns the bundle of the first, from the signal cache,
\* without a new price acquisition.
C8_RepeatServedFromCache ==
    RepeatedWithinTtl =>
        /\ cb.acquisitions = 0
        /\ cb.result = cb.prev.result
        /\ cb.result # None

\* C8 witness: the second call has acquired prices again.
C8_Witness ==
    /\ RepeatedWithinTtl
    /\ cb.acquisitions = 1
    /\ cb.acquired # None

\* C9: the call returns None, without raising and without a signal-cache
\* write, when the price acquisition returned None or a record whose
\* non-empty history has fewer than 26 closes; the synthetic series is
\* used exactly when the history of the record is empty.
C9_NoneOnMissingOrShortData ==
    (cb.pc = "done" /\ cb.acquisitions = 1) =>
        /\ ~cb.raised
        /\ cb.acquired = None => (cb.result = None /\ cb.writes = 0 /\ cb.prices = <<>>)
        /\ (cb.acquired # None /\ cb.acquired.history # <<>>
              /\ Len(cb.acquired.history) < MIN_PRICES) =>
                (cb.result = None /\ cb.writes = 0 /\ ~cb.synthetic
                 /\ Len(cb.prices) = Len(cb.acquired.history))
        /\ cb.acquired # None => (cb.synthetic <=> cb.acquired.history = <<>>)
        /\ cb.synthetic => cb.prices = SyntheticPrices(cb.acquired.current_price)

\* C9 witness: the acquisition returned a record with two closes and the
\* call has returned None without the synthetic series.
C9_Witness ==
    /\ cb.pc = "done" /\ cb.acquisitions = 1
    /\ cb.acquired # None
    /\ Len(cb.acquired.history) = 2
    /\ cb.result = None /\ ~cb.raised /\ cb.writes = 0
    /\ ~cb.synthetic /\ Len(cb.prices) = 2

-----------------------------------------------------------------------------
(* Properties of _rate_limit and get_multiple_prices, checked under         *)
(* SpecBatch                                                                *)

\* C1: any two returns of _rate_limit, whichever tasks they belong to, are
\* at least RATE_LIMIT_DELAY apart.
C1_ReturnsSeparated == rl.min_gap >= RATE_LIMIT_DELAY

\* C1 witness: two tasks of one batch are past _rate_limit, each awaiting its
\* HTTP request, and the last two returns came less than RATE_LIMIT_DELAY
\* apart.
C1_Witness ==
    /\ \E t, u \in Tasks : t # u /\ InStage(gp[t]) /\ InStage(gp[u])
                            /\ gp[t].at = "http" /\ gp[u].at = "http"
    /\ _last_request_time = now
    /\ rl.min_gap < RATE_LIMIT_DELAY

\* C6: the map get_multiple_prices returns has exactly the requested symbols
\* as keys; every task has run to its end, and each symbol maps to the
\* outcome of its acquisition (the last one, for a symbol asked twice):
\* None when that acquisition raised or returned None, its record otherwise.
C6_BatchMap ==
    batch.pc = "done" =>
        /\ ~batch.raised
        /\ DOMAIN batch.result = {Str(batch.symbols[i]) : i \in 1..Len(batch.symbols)}
        /\ \A i \in 1..Len(batch.symbols) :
             /\ gp[i].pc = "done"
             /\ (\A j \in 1..Len(batch.symbols) : j > i => batch.symbols[j] # batch.symbols[i]) =>
                  batch.result[Str(batch.symbols[i])] =
                      (IF gp[i].raised THEN None ELSE gp[i].result)

\* C6 witness: of two symbols the acquisition of the first raised and that
\* of the second returned a record; the map has None for the first and the
\* record for the second.
C6_Witness ==
    /\ batch.pc = "done"
    /\ Len(batch.symbols) = 2
    /\ batch.symbols[1] # batch.symbols[2]
    /\ gp[1].raised
    /\ ~gp[2].raised /\ gp[2].result # None
    /\ batch.result[Str(batch.symbols[1])] = None
    /\ batch.result[Str(batch.symbols[2])] = gp[2].result

-----------------------------------------------------------------------------
(* Properties of the two configurations side by side, checked under         *)
(* SpecEquiv                                                                *)

\* a record without its timestamp
Timeless(record) ==
    IF record = None THEN None
    ELSE [k \in DOMAIN record \ {"timestamp"} |-> record[k]]

\* what a store holds, without the clock readings: the expiry times and the
\* timestamps of the records
TimelessStore(st) == [k \in DOMAIN st |-> Timeless(Deserialize(st[k].val))]

\* the requests of a run without those to one provider
CallsButTo(calls, provider) == SelectSeq(calls, LAMBDA c : c.name # provider)

\* C12 as stated: a run of get_price_with_history with a provider disabled or
\* unset and the run from the same state with that provider enabled but
\* answering what its adapter returns as None return the same result and
\* leave the same cache contents.
C12_DisabledIsAlwaysNone ==
    eq.pc = "done" =>
        /\ eq.off.raised = eq.on.raised
        /\ eq.off.result = eq.on.result
        /\ eq.off.world.store = eq.on.world.store

\* C12 up to the clock: the two runs (crypto flag off, primary key "demo",
\* secondary flag off, against the provider enabled and answering what its
\* adapter returns as None) end alike for every symbol and every answer of
\* the other providers: both raise or neither does, they make the same
\* requests to the other providers, and they return the same record and
\* leave the same keys and records in the cache, timestamps and expiry times
\* set aside.  The call of the enabled provider passes through _rate_limit,
\* so the run with it ends 0 or RATE_LIMIT_DELAY later, and the timestamp of
\* the record and the expiry of a key are then the same or later by as much.
C12_DisabledIsNoneUpToTheClock ==
    eq.pc = "done" =>
        LET shift == eq.on.world.now - eq.off.world.now
        IN /\ eq.off.raised = eq.on.raised
           /\ Timeless(eq.off.result) = Timeless(eq.on.result)
           /\ TimelessStore(eq.off.world.store) = TimelessStore(eq.on.world.store)
           /\ shift \in 0..RATE_LIMIT_DELAY
           /\ \A k \in DOMAIN eq.off.world.store :
                eq.on.world.store[k].exp - eq.off.world.store[k].exp \in {0, shift}
           /\ eq.off.result # None =>
                eq.on.result.timestamp - eq.off.result.timestamp \in {0, shift}
           /\ CallsButTo(eq.on.calls, eq.provider) = eq.off.calls
           /\ Len(eq.on.sets) = Len(eq.off.sets)

\* the crypto adapter is off for a crypto symbol, the primary provider quotes
\* and gives its history, and the record is written to the cache; the run
\* with the crypto adapter on and answering None asks it, and ends
\* RATE_LIMIT_DELAY later
C12_Witness ==
    /\ eq.pc = "done" /\ eq.provider = "coingecko" /\ ~settings.COINGECKO_ENABLED
    /\ eq.symbol = <<"B", "T", "C">>
    /\ ~eq.off.raised /\ eq.off.result # None
    /\ eq.off.result.source = "alpha_vantage"
    /\ eq.off.result.history # <<>>
    /\ DOMAIN eq.off.world.store # {}
    /\ eq.on.calls # <<>> /\ eq.on.calls[1].name = "coingecko"
    /\ eq.on.world.now = eq.off.world.now + RATE_LIMIT_DELAY

-----------------------------------------------------------------------------
(* Properties of generate_trading_signals, checked under SpecSignals *)

Returned == sig.pc = "returned"

\* votes / evaluated > tenths / 10, in whole numbers
Over(votes, evaluated, tenths) == 10 * votes.num > tenths * evaluated * votes.den

\* C13: with at least one indicator evaluated the primary signal is BUY
\* exactly when buy votes / evaluated > 0.6, otherwise SELL exactly when sell
\* votes / evaluated > 0.6, otherwise HOLD; the strength is STRONG (4) exactly
\* when the winning ratio is > 0.8, MODERATE (3) for any other BUY or SELL,
\* and WEAK (2) for HOLD.
C13_DecisionRule ==
    LET c == Counters(sig.args)
        n == c.total_signals
        buy == Over(c.buy_signals, n, 6)
        sell == ~buy /\ Over(c.sell_signals, n, 6)
        o == sig.out
    IN (Returned /\ n > 0) =>
         /\ o.primary_signal = "BUY" <=> buy
         /\ o.primary_signal = "SELL" <=> sell
         /\ o.primary_signal = "HOLD" <=> (~buy /\ ~sell)
         /\ buy => (o.signal_strength = IF Over(c.buy_signals, n, 8) THEN 4 ELSE 3)
         /\ sell => (o.signal_strength = IF Over(c.sell_signals, n, 8) THEN 4 ELSE 3)
         /\ (~buy /\ ~sell) => o.signal_strength = 2

\* five indicators evaluated with three sell votes, a ratio of exactly 0.6:
\* the call returns HOLD
C13_Witness ==
    LET c == Counters(sig.args)
    IN /\ Returned /\ c.total_signals = 5 /\ c.sell_signals = Num(3)
       /\ sig.out.primary_signal = "HOLD" /\ sig.out.signal_strength = 2

AllPresent(a) ==
    /\ a.rsi # None /\ a.macd_data # None /\ a.bb_data # None /\ a.stoch_data # None
    /\ a.williams_r # None /\ a.ema_20 # None /\ a.ema_50 # None

BullishScenario(a) ==
    /\ AllPresent(a)
    /\ RatLt(a.rsi, Num(30))
    /\ RatGt(a.macd_data.macd, a.macd_data.signal) /\ RatGt(a.macd_data.histogram, Num(0))
    /\ RatLe(a.current_price, a.bb_data.lower)
    /\ RatLt(a.stoch_data.k_percent, Num(20))
    /\ RatLt(a.williams_r, Num(-80))
    /\ RatGt(a.current_price, a.ema_20) /\ RatGt(a.ema_20, a.ema_50)

BearishScenario(a) ==
    /\ AllPresent(a)
    /\ RatGt(a.rsi, Num(70))
    /\ RatLt(a.macd_data.macd, a.macd_data.signal) /\ RatLt(a.macd_data.histogram, Num(0))
    /\ RatGe(a.current_price, a.bb_data.upper)
    /\ RatGt(a.stoch_data.k_percent, Num(80))
    /\ RatGt(a.williams_r, Num(-20))
    /\ RatLt(a.current_price, a.ema_20) /\ RatLt(a.ema_20, a.ema_50)

NeutralScenario(a) ==
    /\ AllPresent(a)
    /\ a.rsi = Num(50)
    /\ a.macd_data.macd = a.macd_data.signal
    /\ a.current_price = a.bb_data.middle
    /\ a.stoch_data.k_percent = Num(50)
    /\ a.williams_r = Num(-50)
    /\ a.ema_20 = a.ema_50

\* C14: with RSI < 30, the MACD line above its signal with a positive
\* histogram, the price at or below the lower band, %K < 20, %R < -80 and
\* price > EMA20 > EMA50 the call returns BUY with strength >= MODERATE,
\* confidence > 50 and trend bullish; the mirrored inputs return SELL with
\* trend bearish; the all-neutral inputs return HOLD with confidence < 50.
C14_FusionScenarios ==
    LET a == sig.args
        o == sig.out
    IN Returned =>
         /\ BullishScenario(a) =>
              /\ o.primary_signal = "BUY" /\ o.signal_strength >= MODERATE
              /\ RatGt(o.confidence, Num(50)) /\ o.trend_direction = "bullish"
         /\ BearishScenario(a) =>
              /\ o.primary_signal = "SELL" /\ o.trend_direction = "bearish"
         /\ NeutralScenario(a) =>
              /\ o.primary_signal = "HOLD" /\ RatLt(o.confidence, Num(50))

\* the bullish scenario with the price below the lower band has returned
C14_Witness ==
    /\ Returned /\ BullishScenario(sig.args)
    /\ RatLt(sig.args.current_price, sig.args.bb_data.lower)
    /\ sig.out.primary_signal = "BUY"

\* the arguments of test_bullish_signals and of test_bearish_signals
TestBullishArguments ==
    [current_price |-> Num(100), rsi |-> Num(25), macd_data |-> Macd(Num(1), Half, Half),
     bb_data |-> Bands(90, 100, 110, 20), stoch_data |-> [k_percent |-> Num(15)],
     williams_r |-> Num(-85), ema_20 |-> Num(102), ema_50 |-> Num(98)]
TestBearishArguments ==
    [current_price |-> Num(100), rsi |-> Num(75), macd_data |-> Macd(Half, Num(1), Frac(-1, 2)),
     bb_data |-> Bands(90, 100, 110, 80), stoch_data |-> [k_percent |-> Num(85)],
     williams_r |-> Num(-15), ema_20 |-> Num(98), ema_50 |-> Num(102)]

\* C15: on the inputs of test_bullish_signals (price 100 on the middle band
\* and below EMA20, RSI 25, %K 15, %R -85, EMA20 102, EMA50 98) the call
\* returns BUY with strength >= MODERATE, confidence > 50 and trend bullish;
\* on the mirrored bearish inputs it returns SELL with trend bearish.
C15_TestInputsDecide ==
    Returned =>
      /\ sig.args = TestBullishArguments =>
           /\ sig.out.primary_signal = "BUY" /\ sig.out.signal_strength >= MODERATE
           /\ RatGt(sig.out.confidence, Num(50)) /\ sig.out.trend_direction = "bullish"
      /\ sig.args = TestBearishArguments =>
           /\ sig.out.primary_signal = "SELL" /\ sig.out.trend_direction = "bearish"

\* what the call returns on those inputs: three votes of six, HOLD with
\* confidence 50 and trend sideways
C15_TestInputsHold ==
    (Returned /\ sig.args \in {TestBullishArguments, TestBearishArguments}) =>
      /\ sig.out.primary_signal = "HOLD" /\ sig.out.signal_strength = WEAK
      /\ sig.out.confidence = Num(50) /\ sig.out.trend_direction = "sideways"

C15_Witness == Returned /\ sig.args = TestBullishArguments

RiskFromConfidence ==
    LET c == Counters(sig.args)
        hi == RatMax(c.buy_signals, c.sell_signals)
        n == c.total_signals
    IN /\ n = 0 => sig.out.confidence = Num(0)
       /\ n > 0 => sig.out.confidence = Frac(100 * hi.num, n * hi.den)
       /\ sig.out.risk_level =
            IF RatGt(sig.out.confidence, Num(80)) THEN "low"
            ELSE IF RatGt(sig.out.confidence, Num(60)) THEN "medium"
            ELSE "high"

\* C16: for every combination of present and absent indicators the risk
\* level is low when confidence > 80, medium when 60 < confidence <= 80 and
\* high otherwise, with confidence = max(buy ratio, sell ratio) * 100.
C16_RiskFromConfidence == Returned => RiskFromConfidence

\* the same for every combination with at least one indicator evaluated
C16_RiskFromConfidenceWhenEvaluated ==
    (Returned /\ Counters(sig.args).total_signals > 0) => RiskFromConfidence

\* one indicator alone, voting to sell: confidence 100 and low risk
C16_Witness ==
    /\ Returned /\ Counters(sig.args).total_signals = 1
    /\ sig.args.rsi = Num(75)
    /\ sig.out.confidence = Num(100) /\ sig.out.risk_level = "low"

\* C17: for every input the primary signal is BUY, SELL or HOLD, the
\* strength an integer in 1..5, the confidence in [0,100], the trend
\* bullish, bearish or sideways and the risk low, medium or high; the buy
\* and the sell votes never exceed the number of evaluated indicators.
C17_OutputRanges ==
    LET c == Counters(sig.args)
        o == sig.out
    IN Returned =>
         /\ o.primary_signal \in {"BUY", "SELL", "HOLD"}
         /\ o.signal_strength \in VERY_WEAK..VERY_STRONG
         /\ RatGe(o.confidence, Num(0)) /\ RatLe(o.confidence, Num(100))
         /\ o.trend_direction \in {"bullish", "bearish", "sideways"}
         /\ o.risk_level \in {"low", "medium", "high"}
         /\ RatLe(c.buy_signals, Num(c.total_signals))
         /\ RatLe(c.sell_signals, Num(c.total_signals))

\* every evaluated indicator votes to buy with its full weight: confidence
\* is below 100 only by the half votes
C17_Witness ==
    /\ Returned /\ Counters(sig.args).total_signals = 6
    /\ Counters(sig.args).buy_signals = Num(5)
    /\ sig.out.primary_signal = "BUY" /\ sig.out.signal_strength = STRONG

-----------------------------------------------------------------------------
(* Properties of the indicator functions, checked under SpecIndicators *)

IndicatorReturned(fn) == ind.pc = "returned" /\ ind.fn = fn

\* the shortest series an indicator accepts, by its periods
MinimumLength(fn, periods) ==
    CASE fn \in {"simple_moving_average", "exponential_moving_average", "bollinger_bands",
                 "williams_r"} -> periods[1]
      [] fn \in {"relative_strength_index", "average_true_range"} -> periods[1] + 1
      [] fn = "macd" -> periods[2] + periods[3]
      [] fn = "stochastic_oscillator" -> periods[1] + periods[2] - 1

PositivePeriods(periods) == \A i \in 1..Len(periods) : periods[i] > 0

\* C18 as stated: every indicator function returns None for every series
\* shorter than its minimum (SMA, EMA, Bollinger, Williams %R: period; RSI,
\* ATR: period+1; MACD: slow+signal; Stochastic: period+kSmooth-1), the empty
\* series included, and SMA, EMA and RSI return None for a period <= 0; for a
\* series at or above the minimum, with positive periods, it returns a value.
C18_AbsentBelowMinimum ==
    ind.pc = "returned" =>
      /\ Len(ind.values) < MinimumLength(ind.fn, ind.periods) => ind.out = None
      /\ (/\ ind.fn \in {"simple_moving_average", "exponential_moving_average",
                         "relative_strength_index"}
          /\ ind.periods[1] <= 0) => ind.out = None
      /\ (/\ PositivePeriods(ind.periods)
          /\ Len(ind.values) >= MinimumLength(ind.fn, ind.periods)) => ind.out # None

\* the shortest series on which macd returns its lines: the signal line
\* averages signal_period MACD values, and the first of them is that of the
\* prefix of slow_period + 1 prices or, when that is more, of fast_period
MacdMinimum(fast_period, slow_period, signal_period) ==
    signal_period + (IF fast_period - 1 > slow_period THEN fast_period - 1 ELSE slow_period)

\* the shortest series on which an indicator returns a value
ValueLength(fn, periods) ==
    IF fn = "macd" THEN MacdMinimum(periods[1], periods[2], periods[3])
    ELSE MinimumLength(fn, periods)

\* C18: every indicator function returns None for every series shorter than
\* the stated minimum, the empty series included, and SMA, EMA and RSI return
\* None for a period <= 0; with positive periods it returns a value for a
\* series at or above the minimum, where the minimum of MACD is
\* signal + max(slow, fast - 1), which is slow + signal whenever fast <= slow + 1,
\* and MACD returns None below that.
C18_AbsentBelowValueLength ==
    ind.pc = "returned" =>
      /\ Len(ind.values) < MinimumLength(ind.fn, ind.periods) => ind.out = None
      /\ (/\ ind.fn \in {"simple_moving_average", "exponential_moving_average",
                         "relative_strength_index"}
          /\ ind.periods[1] <= 0) => ind.out = None
      /\ (/\ PositivePeriods(ind.periods)
          /\ Len(ind.values) >= ValueLength(ind.fn, ind.periods)) => ind.out # None
      /\ (/\ PositivePeriods(ind.periods)
          /\ Len(ind.values) < ValueLength(ind.fn, ind.periods)) => ind.out = None
      /\ (ind.fn = "macd" /\ ind.periods[1] <= ind.periods[2] + 1) =>
            ValueLength(ind.fn, ind.periods) = MinimumLength(ind.fn, ind.periods)

\* MACD with a fast period above the slow one, on a series of slow + signal
\* prices or more, has returned None
C18_Witness ==
    /\ IndicatorReturned("macd")
    /\ PositivePeriods(ind.periods)
    /\ ind.periods[1] > ind.periods[2] + 1
    /\ Len(ind.values) >= ind.periods[2] + ind.periods[3]
    /\ ind.out = None

StrictlyIncreasing(values) ==
    \A i \in 1..(Len(values) - 1) : RatLt(values[i], values[i + 1])
StrictlyDecreasing(values) ==
    \A i \in 1..(Len(values) - 1) : RatGt(values[i], values[i + 1])

\* C19: relative_strength_index of a strictly increasing series of length
\* >= period + 1 is 100, of a strictly decreasing one 0, and of every series
\* of sufficient length a number in [0, 100].
C19_RsiEnds ==
    (/\ IndicatorReturned("relative_strength_index")
     /\ ind.periods[1] > 0
     /\ Len(ind.values) >= ind.periods[1] + 1) =>
        /\ ind.out # None
        /\ RatGe(ind.out, Num(0)) /\ RatLe(ind.out, Num(100))
        /\ StrictlyIncreasing(ind.values) => ind.out = Num(100)
        /\ StrictlyDecreasing(ind.values) => ind.out = Num(0)

\* RSI(3) of a strictly increasing series of four prices has returned
C19_Witness ==
    /\ IndicatorReturned("relative_strength_index")
    /\ ind.periods[1] = MaxPeriod /\ Len(ind.values) = MaxPeriod + 1
    /\ StrictlyIncreasing(ind.values)
    /\ ind.out = Num(100)

\* the last period prices are all the same
FlatWindow(values, period) ==
    \A i, j \in (Len(values) - period + 1)..Len(values) : values[i] = values[j]

\* C20: for every series of sufficient length Stochastic %K, and %D, lie in
\* [0, 100] and Williams %R lies in [-100, 0]; on a window with zero range
\* %K is 50 and %R is -50.
C20_OscillatorRanges ==
    /\ (IndicatorReturned("stochastic_oscillator") /\ ind.out # None) =>
          /\ RatGe(ind.out.k_percent, Num(0)) /\ RatLe(ind.out.k_percent, Num(100))
          /\ ind.out.d_percent # None =>
               /\ RatGe(ind.out.d_percent, Num(0)) /\ RatLe(ind.out.d_percent, Num(100))
          /\ FlatWindow(ind.values, ind.periods[1]) => ind.out.k_percent = Num(50)
    /\ (IndicatorReturned("williams_r") /\ ind.out # None) =>
          /\ RatGe(ind.out, Num(-100)) /\ RatLe(ind.out, Num(0))
          /\ FlatWindow(ind.values, ind.periods[1]) => ind.out = Num(-50)

\* Williams %R of a window whose last price is its lowest has returned -100
C20_Witness ==
    /\ IndicatorReturned("williams_r")
    /\ ind.periods[1] = MaxPeriod /\ Len(ind.values) = MaxLen
    /\ ~FlatWindow(ind.values, MaxPeriod)
    /\ ind.out = Num(-100)

-----------------------------------------------------------------------------
(* Properties of get_price_with_history called from outside, checked under  *)
(* SpecAcquire                                                              *)

\* the calls under way or about to return to their callers
Frames == {gp[t] : t \in Tasks}

\* the call has returned a record
ReturnedRecord(f) == f.pc = "done" /\ ~f.raised /\ f.result # None

\* the call missed the cache and ran the adapter chain to a record
FreshRecord(f) == ReturnedRecord(f) /\ f.sets # <<>>

\* the values the price cache holds
CachedRecords == { Deserialize(store[k].val) : k \in DOMAIN store }

\* C21: every record get_price_with_history returns has current price > 0,
\* and no record with a zero or negative price is in the cache.
C21_ReturnedPricePositive ==
    /\ \A f \in Frames : ReturnedRecord(f) => RatGt(f.result.current_price, Num(0))
    /\ \A r \in CachedRecords : RatGt(r.current_price, Num(0))

\* C21, the part that holds: the secondary adapter drops a quote whose price
\* is exactly zero, so a record from it never has price 0.
C21_SecondaryPriceNonzero ==
    /\ \A f \in Frames :
         ReturnedRecord(f) /\ f.result.source = "yahoo_finance"
           => f.result.current_price # Num(0)
    /\ \A r \in CachedRecords : r.source = "yahoo_finance" => r.current_price # Num(0)

\* C21 witness: a fresh call returned a record whose price is not positive,
\* and the cache holds that record.
C21_Witness ==
    \E f \in Frames :
        /\ FreshRecord(f)
        /\ RatLe(f.result.current_price, Num(0))
        /\ f.result \in CachedRecords

\* the call missed the cache and is past the test of the crypto stage
PastCryptoStage(f) ==
    \/ f.pc \in {"alpha_vantage", "history", "yahoo_finance", "finish", "setex", "return"}
    \/ f.pc = "coingecko" /\ f.at # "start"
    \/ f.pc = "done" /\ ~f.raised /\ (f.result = None \/ f.sets # <<>>)

\* the place of a request in the order crypto, primary quote, primary
\* history, secondary
Rank(call) ==
    CASE call = "coingecko" -> 1 [] call = "alpha_vantage" -> 2
      [] call = "history" -> 3 [] call = "yahoo_finance" -> 4

\* the symbols of TestAssetTypeDetection with the types the tests expect
TestAssetTypes ==
    [stock |-> { <<"A","A","P","L">>, <<"G","O","O","G","L">>, <<"M","S","F","T">> },
     crypto |-> { <<"B","T","C">>, <<"E","T","H">>, <<"A","D","A">>,
                  <<"B","T","C","U","S","D">> },
     forex |-> { <<"E","U","R","U","S","D">>, <<"G","B","P","J","P","Y">>,
                 <<"A","U","D","C","A","D">> }]

\* C22: a call for a symbol not classified crypto never invokes the crypto
\* adapter; a call that runs the chain for a crypto symbol with the crypto
\* adapter enabled invokes it first; requests are made in the order crypto,
\* primary, secondary; the symbol of every call gets exactly one of the
\* three types, crypto whenever it contains a crypto pattern, whatever its
\* length (BTCUSD); and the symbols of the tests get the types the tests
\* expect (a fact of the function alone, evaluated in the initial states).
C22_CryptoAdapterFirstAndOnlyForCrypto ==
    /\ \A f \in Frames : f.pc # "idle" =>
         LET asset_type == _detect_asset_type(f.symbol)
         IN /\ asset_type \in {"stock", "crypto", "forex"}
            /\ (\E pattern \in crypto_patterns : Contains(Upper(f.symbol), pattern))
                 => asset_type = "crypto"
            /\ asset_type # "crypto" =>
                 /\ \A i \in DOMAIN f.calls : f.calls[i].name # "coingecko"
                 /\ ~(f.pc = "coingecko" /\ f.at # "start")
            /\ asset_type = "crypto" /\ settings.COINGECKO_ENABLED /\ PastCryptoStage(f)
                 => \/ f.pc = "coingecko" /\ f.calls = <<>>
                    \/ f.calls # <<>> /\ f.calls[1].name = "coingecko"
            /\ \A i, j \in DOMAIN f.calls :
                 i < j => Rank(f.calls[i].name) < Rank(f.calls[j].name)
            /\ InStage(f) => \A i \in DOMAIN f.calls : Rank(f.calls[i].name) < Rank(f.pc)
            /\ FreshRecord(f) => f.result.asset_type = asset_type
    /\ ncalls = 0 =>
         \A t \in DOMAIN TestAssetTypes : \A symbol \in TestAssetTypes[t] :
            _detect_asset_type(symbol) = t

\* the names of the requests a call made, in order
CallNames(f) == [i \in DOMAIN f.calls |-> f.calls[i].name]

\* C22 witness: a call for BTC, classified crypto, asked the crypto adapter
\* first, then the primary provider, whose quote and history it returned.
C22_Witness ==
    \E f \in Frames :
        /\ FreshRecord(f)
        /\ f.symbol = <<"B","T","C">>
        /\ CallNames(f) = <<"coingecko", "alpha_vantage", "history">>
        /\ f.result.asset_type = "crypto"
        /\ f.result.source = "alpha_vantage"

\* C29: a record acquired by a call has a non-empty history only if its
\* quote is the primary provider's; a record from the crypto or the
\* secondary adapter has an empty history, no history request having been
\* made; and a primary quote whose history request fails is still returned,
\* with an empty history, and written to the cache: the call hands it to
\* cache_price_data, and the write that reaches the server is in the store
\* until it expires or is overwritten.
C29_HistoryOnlyFromPrimary ==
    /\ \A f \in Frames : FreshRecord(f) =>
         /\ f.result.history # <<>> => f.result.source = "alpha_vantage"
         /\ f.result.source \in {"coingecko", "yahoo_finance"} =>
              /\ f.result.history = <<>>
              /\ \A i \in DOMAIN f.calls : f.calls[i].name # "history"
         /\ f.result.source = "alpha_vantage" =>
              \E i \in DOMAIN f.calls :
                  /\ f.calls[i].name = "alpha_vantage"
                  /\ i < Len(f.calls) /\ f.calls[i + 1].name = "history"
         /\ Len(f.sets) = 1 /\ f.sets[1].value = f.result
         /\ f.sets[1].ok =>
              \E i \in DOMAIN acq.writes :
                 acq.writes[i].value = f.result /\ acq.writes[i].at = f.sets[1].at
    /\ acq.writes # <<>> /\ now < acq.writes[Len(acq.writes)].at + PRICE_TTL
         => acq.writes[Len(acq.writes)].value \in CachedRecords

\* C29 witness: the primary provider quoted, its history request failed, and
\* the call returned and cached the record with an empty history.
C29_Witness ==
    \E f \in Frames :
        /\ FreshRecord(f) /\ f.sets[1].ok
        /\ f.result.source = "alpha_vantage"
        /\ CallNames(f) = <<"alpha_vantage", "history">>
        /\ f.result.history = <<>>
        /\ f.result \in CachedRecords

-----------------------------------------------------------------------------
(* Properties of get_price_with_history called again, checked under         *)
(* SpecFollow                                                               *)

\* the calls that have returned to their callers
ReturnedCalls == {acq.log[i].call : i \in DOMAIN acq.log}

\* the calls made so far, returned or under way
FollowFrames == ReturnedCalls \cup {gp[t] : t \in Tasks}

\* the full key of a price entry
PriceFullKey(cache_key) == "insightfinance:market_data:price:" \o cache_key

\* the SETEX commands the server has executed for a cache key, in order
WritesOf(cache_key) == SelectSeq(acq.writes, LAMBDA w : w.key = cache_key)

\* those it had executed for the key of call f when f read the cache
WritesSeen(f) ==
    SelectSeq(SubSeq(acq.writes, 1, f.lookup.seen),
              LAMBDA w : w.key = Str(Upper(f.symbol)) \o "_" \o f.period)

\* what a call that acquires a record writes, and when
OneCacheWrite(f) ==
    /\ Len(f.sets) <= 1
    /\ f.pc \in {"lookup", "coingecko", "alpha_vantage", "history", "yahoo_finance",
                 "finish", "setex"} => f.sets = <<>>
    /\ f.pc \in {"return", "done"} /\ ~f.raised /\ f.result # None /\ f.calls # <<>>
         => Len(f.sets) = 1
    /\ f.sets # <<>> =>
         /\ ~f.raised /\ f.result # None /\ f.calls # <<>>
         /\ f.sets[1].key = Str(Upper(f.symbol)) \o "_" \o f.period
         /\ f.sets[1].ttl = 300
         /\ f.sets[1].value = f.result
         /\ f.result.period = f.period
         /\ f.result.asset_type = _detect_asset_type(f.symbol)
         /\ f.result.symbol = Str(Upper(f.symbol))
         /\ f.result.source \in Providers
         /\ f.result.timestamp \in f.start..f.sets[1].at
         /\ f.sets[1].ok =>
              \E i \in DOMAIN acq.writes :
                 acq.writes[i] = [key |-> f.sets[1].key, value |-> f.result, ttl |-> 300,
                                  at |-> f.sets[1].at]
    /\ f.result = None => f.sets = <<>>
    /\ f.pc = "done" /\ f.calls = <<>> => f.sets = <<>>

\* C23 as stated: a call that acquires a record writes it to the price cache
\* once, after the adapter chain, with ttl 300 under the key of the
\* upper-cased symbol and the period, and a call that follows it within the
\* TTL for the same symbol in any letter case and the same period returns
\* that record, asking no provider and writing nothing.
C23_OneCacheWriteThenHit ==
    /\ \A f \in FollowFrames : OneCacheWrite(f)
    /\ \A i, j \in DOMAIN acq.log :
         LET first == acq.log[i]
             next == acq.log[j].call
         IN /\ FreshRecord(first.call)
            /\ i <= next.returned_before
            /\ next.start < first.call.sets[1].at + PRICE_TTL
            /\ Upper(next.symbol) = Upper(first.call.symbol)
            /\ next.period = first.call.period
            => /\ next.result = first.call.result
               /\ next.calls = <<>>
               /\ next.sets = <<>>

\* C23 with the cache in view: a call that acquires a record calls
\* cache_price_data exactly once, after the last adapter has answered and
\* before it returns, with ttl 300 under the key of the upper-cased symbol
\* and the period, for the record it returns, which is the adapter's quote
\* with history, asset type and period added, stamped with the clock of the
\* adapter that quoted; a call that acquires nothing or is served from the
\* cache writes nothing.  The write reaches the store when the server can be
\* reached at that moment; the store holds under a key the record of the
\* last write that reached it, until 300 s after that write, and nothing
\* else.  A call that reads the cache while the server can be reached, less
\* than 300 s after the last write that had reached the store for its key
\* (the upper-cased symbol and the period), returns the record of that write
\* without asking any provider and without writing.
C23_OneCacheWriteThenHitOnLastWrite ==
    /\ \A f \in FollowFrames : OneCacheWrite(f)
    /\ \A k \in DOMAIN store : \E i \in DOMAIN acq.writes : k = PriceFullKey(acq.writes[i].key)
    /\ \A i \in DOMAIN acq.writes :
         LET ws == WritesOf(acq.writes[i].key)
             w == ws[Len(ws)]
             k == PriceFullKey(w.key)
         IN IF now < w.at + 300
            THEN /\ k \in DOMAIN store
                 /\ Deserialize(store[k].val) = w.value
                 /\ store[k].exp = w.at + 300
            ELSE k \notin DOMAIN store
    /\ \A f \in FollowFrames :
         f.pc \notin {"idle", "lookup"} /\ f.lookup.up
           /\ WritesSeen(f) # <<>>
           /\ f.lookup.at < WritesSeen(f)[Len(WritesSeen(f))].at + 300
           => /\ f.pc = "done" /\ ~f.raised
              /\ f.result = WritesSeen(f)[Len(WritesSeen(f))].value
              /\ f.calls = <<>>
              /\ f.sets = <<>>

\* C23 witness: a call for aapl acquired a record with its history and
\* cached it, and the call after it, for AAPL and the same period, returned
\* that record with no provider asked and nothing written.
C23_Witness ==
    /\ Len(acq.log) = 2
    /\ FreshRecord(acq.log[1].call)
    /\ acq.log[1].call.symbol = <<"a","a","p","l">>
    /\ acq.log[2].call.symbol = <<"A","A","P","L">>
    /\ acq.log[2].call.period = acq.log[1].call.period
    /\ acq.log[2].call.returned_before = 1
    /\ acq.log[1].call.result.history # <<>>
    /\ acq.log[2].call.result = acq.log[1].call.result
    /\ acq.log[2].call.calls = <<>>
    /\ acq.log[2].call.sets = <<>>

\* two calls for one key overlapped, both missed the cache and both wrote;
\* the store holds the record of the later write
C23_OverlappingWriters ==
    /\ Len(acq.writes) = 2
    /\ acq.writes[1].key = acq.writes[2].key
    /\ acq.writes[1].value # acq.writes[2].value
    /\ \A f \in FollowFrames : f.pc # "idle" => f.lookup.seen = 0
    /\ Deserialize(store[PriceFullKey(acq.writes[2].key)].val) = acq.writes[2].value

-----------------------------------------------------------------------------
(* Properties of concurrent cache calls, checked under SpecWriters *)

\* the sets that returned True
GoodSets == {i \in DOMAIN ct.ops : ct.ops[i].op = "set" /\ ct.ops[i].order # 0 /\ ct.ops[i].ok}

\* the gets the server has answered
AnsweredGets == {i \in DOMAIN ct.ops : ct.ops[i].op = "get" /\ ct.ops[i].order # 0 /\ ct.ops[i].up}

\* set s was executed before get g, and its entry had not expired then
LiveAt(s, g) ==
    /\ ct.ops[s].order < ct.ops[g].order
    /\ ct.ops[g].time < ct.ops[s].time + settings.CACHE_TTL

\* set s had returned before get g started
ReturnedBefore(s, g) == s \in ct.ops[g].before

\* among the sets W, those that get g may read under last-writer-wins: live
\* at g and not followed by another set of W that started after they had
\* returned and itself returned before g started
Readable(W, g) ==
    {s \in W : /\ LiveAt(s, g)
               /\ ~\E s2 \in W : /\ LiveAt(s2, g) /\ ReturnedBefore(s2, g)
                                 /\ s \in ct.ops[s2].before}

\* get g returned the value of a readable set of W, or missed when W has no
\* live set
LastWriterWins(W, g) ==
    IF \E s \in W : LiveAt(s, g)
    THEN \E s \in Readable(W, g) : ct.ops[g].value = ct.ops[s].value
    ELSE ct.ops[g].value = None

\* C24: a get of (key, namespace) before expiry returns the value of the most
\* recently completed set on that (key, namespace), whatever sets were made
\* on other keys or namespaces.
C24_LastWriterWinsPerKey ==
    \A g \in AnsweredGets :
        LastWriterWins({s \in GoodSets : ct.ops[s].key = ct.ops[g].key}, g)

\* C24, the part that holds: the same per full Redis key, that is, counting
\* as sets on the key every set whose prefix + namespace + ":" + key is the
\* same string.
C24_LastWriterWinsPerFullKey ==
    \A g \in AnsweredGets :
        LastWriterWins({s \in GoodSets :
                          _generate_key(ct.ops[s].key[1], ct.ops[s].key[2])
                            = _generate_key(ct.ops[g].key[1], ct.ops[g].key[2])}, g)

\* C24 witness: set("a", v, namespace="b") returned True, then
\* set("b:a", w) with another value returned True, then get("a",
\* namespace="b") returned w.
C24_Witness ==
    \E s1, s2 \in GoodSets : \E g \in AnsweredGets :
        /\ ct.ops[s1].key = <<"a", "b">> /\ ct.ops[g].key = <<"a", "b">>
        /\ ct.ops[s2].key = <<"b:a", "">>
        /\ s1 \in ct.ops[s2].before /\ s2 \in ct.ops[g].before
        /\ LiveAt(s2, g)
        /\ ct.ops[s1].value # ct.ops[s2].value
        /\ ct.ops[g].value = ct.ops[s2].value

-----------------------------------------------------------------------------
(* Properties of get_market_overview, checked under SpecOverview *)

\* the bundle at place i is a dict: neither None nor an exception
Analysed(i) == ~IsException(ov.results[i]) /\ Truthy(ov.results[i])

\* the keys the loop reads in a bundle
BundleKeys == {"signal", "signal_strength", "confidence", "trend_direction", "risk_level",
               "current_price"}

\* the bundle has every key the loop reads, and a signal the summary counts
WellFormed(result) ==
    BundleKeys \subseteq DOMAIN result /\ result.signal \in {"BUY", "SELL", "HOLD"}

RECURSIVE StrongPlaces(_)
\* the places among the first n whose bundle is a dict of strength 4 or more,
\* in order
StrongPlaces(n) ==
    IF n = 0 THEN <<>>
    ELSE IF Analysed(n) /\ ov.results[n].signal_strength >= 4
         THEN Append(StrongPlaces(n - 1), n)
         ELSE StrongPlaces(n - 1)

\* the last place at which symbol x was requested
LastPlace(x) == CHOOSE i \in DOMAIN ov.symbols :
                    /\ Str(ov.symbols[i]) = x
                    /\ \A j \in DOMAIN ov.symbols : Str(ov.symbols[j]) = x => j <= i

\* the overview of N symbols has total_symbols = N, an entry in symbols for
\* every requested symbol and for no other, successful_analyses equal to the
\* number of bundles that are neither None nor an exception, BUY + SELL +
\* HOLD equal to successful_analyses, strong_signals listing exactly the
\* analysed symbols whose strength is at least STRONG (4), in order, and an
\* error entry for a symbol whose bundle is None or an exception, the
\* entries of the other symbols being those of their bundles
OverviewCounts ==
    LET out == ov.out
        N == Len(ov.symbols)
        strong == StrongPlaces(N)
    IN /\ "total_symbols" \in DOMAIN out
       /\ out.total_symbols = N
       /\ DOMAIN out.symbols = {Str(ov.symbols[i]) : i \in 1..N}
       /\ out.successful_analyses = Cardinality({i \in 1..N : Analysed(i)})
       /\ out.signals_summary.BUY + out.signals_summary.SELL + out.signals_summary.HOLD
            = out.successful_analyses
       /\ \A signal \in {"BUY", "SELL", "HOLD"} :
            out.signals_summary[signal]
              = Cardinality({i \in 1..N : Analysed(i) /\ ov.results[i].signal = signal})
       /\ Len(out.strong_signals) = Len(strong)
       /\ \A k \in DOMAIN strong :
            out.strong_signals[k] = [symbol |-> Str(ov.symbols[strong[k]]),
                                     signal |-> ov.results[strong[k]].signal,
                                     confidence |-> ov.results[strong[k]].confidence]
       /\ \A x \in DOMAIN out.symbols :
            LET i == LastPlace(x)
            IN IF Analysed(i)
               THEN out.symbols[x] = [signal |-> ov.results[i].signal,
                                      confidence |-> ov.results[i].confidence,
                                      trend |-> ov.results[i].trend_direction,
                                      risk |-> ov.results[i].risk_level,
                                      price |-> ov.results[i].current_price]
               ELSE DOMAIN out.symbols[x] = {"error"}

\* C25 as stated: whatever the bundles, the overview of N symbols carries
\* the counts and the entries above.
C25_OverviewCounts == ov.pc = "returned" => OverviewCounts

\* C25 on the bundles the loop can read: when every bundle that is a dict
\* has the keys signal, signal_strength, confidence, trend_direction,
\* risk_level and current_price and a signal among BUY, SELL and HOLD, the
\* overview carries the counts and the entries above, a bundle that is None
\* giving an error entry for its symbol only; otherwise the call returns a
\* dict with the one key "error", whose text quotes a key such a bundle
\* lacks or its signal, and no count and no entry at all.
C25_OverviewCountsOrError ==
    ov.pc = "returned" =>
        IF \A i \in DOMAIN ov.results : Analysed(i) => WellFormed(ov.results[i])
        THEN OverviewCounts
        ELSE /\ DOMAIN ov.out = {"error"}
             /\ \E i \in DOMAIN ov.results :
                  /\ Analysed(i) /\ ~WellFormed(ov.results[i])
                  /\ \E key \in (BundleKeys \ DOMAIN ov.results[i])
                                  \cup (IF "signal" \in DOMAIN ov.results[i]
                                        THEN {ov.results[i].signal} ELSE {}) :
                       ov.out.error = "'" \o key \o "'"

\* C25 witness: the overview of AAPL and INVALID, the signal cache holding a
\* strong BUY for AAPL and nothing for INVALID, whose task went through the
\* acquisition and returned None: one analysis, one strong signal, an error
\* entry for INVALID only.
C25_Witness ==
    /\ ov.pc = "returned"
    /\ ov.symbols = << <<"A","A","P","L">>, <<"I","N","V","A","L","I","D">> >>
    /\ Analysed(1) /\ WellFormed(ov.results[1])
    /\ ov.results[1].signal = "BUY" /\ ov.results[1].signal_strength = 4
    /\ ov.results[2] = None /\ ov.tasks[2].acquisitions = 1
    /\ ov.out.total_symbols = 2 /\ ov.out.successful_analyses = 1
    /\ Len(ov.out.strong_signals) = 1 /\ ov.out.strong_signals[1].symbol = "AAPL"
    /\ DOMAIN ov.out.symbols["INVALID"] = {"error"}
    /\ DOMAIN ov.out.symbols["AAPL"] # {"error"}

\* the signal cache held the dict of test_compute_signal_bundle_cached for
\* one symbol, and the whole overview is the error of the missing key
C25_ErrorOverview ==
    /\ ov.pc = "returned"
    /\ \E i \in DOMAIN ov.results :
         Analysed(i) /\ DOMAIN ov.results[i] = {"symbol", "signal", "confidence"}
    /\ ov.out = [error |-> "'signal_strength'"]

-----------------------------------------------------------------------------
(* Properties of the window of history, checked under SpecWindow *)

\* the dates of the provider series
SeriesDates == {win.series[i].date : i \in DOMAIN win.series}

\* C26: the history of a record the primary adapter quoted is in ascending
\* order of date, has at most 30 bars, and its bars are the most recent ones
\* of the provider's series, each with the series' values;
\* compute_signal_bundle takes the closes of the last 50 bars of a record's
\* history at most, in the order of the history; and the expression of line
\* 560 applied to a list of up to MaxBars bars gives the closes of its last
\* 50 in order (looked at before the call is made; win does not change
\* after that).
C26_HistoryWindow ==
    /\ cb.pc = "done" /\ cb.acquired # None /\ cb.acquired.source = "alpha_vantage" =>
         LET h == cb.acquired.history
         IN /\ \A i, j \in DOMAIN h : i < j => h[i].date < h[j].date
            /\ Len(h) <= 30
            /\ Len(h) = IF Len(win.series) <= 30 THEN Len(win.series) ELSE 30
            /\ \A i \in DOMAIN h :
                 /\ \E k \in DOMAIN win.series :
                      /\ win.series[k].date = h[i].date
                      /\ h[i] = ParsedBar(win.series[k]).bar
                 /\ Cardinality({d \in SeriesDates : d > h[i].date}) = Len(h) - i
    /\ cb.pc = "done" /\ cb.acquired # None /\ cb.acquired.history # <<>> =>
         LET h == cb.acquired.history
             n == Len(cb.prices)
         IN /\ ~cb.synthetic
            /\ n <= 50
            /\ n = IF Len(h) <= 50 THEN Len(h) ELSE 50
            /\ \A k \in 1..n : cb.prices[k] = h[Len(h) - n + k].close
    /\ win.taken /\ ncalls = 0 =>
         LET n == Len(win.closes)
             N == Len(win.series)
         IN /\ n = IF N <= 50 THEN N ELSE 50
            /\ \A k \in 1..n : win.closes[k] = ParsedBar(win.series[N - n + k]).bar.close

\* C26 witness: of a series of 51 bars sent newest first the adapter kept the
\* 30 most recent, oldest first, all 30 closes were consumed, and line 560
\* applied to the 51 bars kept the closes of the last 50.
C26_Witness ==
    /\ win.taken /\ Len(win.closes) = 50
    /\ cb.pc = "done" /\ cb.acquired # None
    /\ Len(win.series) = 51 /\ win.series[1].date > win.series[2].date
    /\ Len(cb.acquired.history) = 30
    /\ cb.acquired.history[30].date = win.series[1].date
    /\ Len(cb.prices) = 30

-----------------------------------------------------------------------------
(* Further properties of generate_trading_signals, checked under            *)
(* SpecSignals                                                              *)

\* both averages are given, the short one above the long one and the price
\* above the short one
EmasAlignedUp(a) ==
    IF a.ema_20 = None \/ a.ema_50 = None THEN FALSE
    ELSE RatGt(a.ema_20, a.ema_50) /\ RatGt(a.current_price, a.ema_20)

\* the mirror case
EmasAlignedDown(a) ==
    IF a.ema_20 = None \/ a.ema_50 = None THEN FALSE
    ELSE RatLt(a.ema_20, a.ema_50) /\ RatLt(a.current_price, a.ema_20)

\* C27: trend_direction is bullish exactly when EMA20 and EMA50 are both
\* given with EMA20 > EMA50 and price > EMA20, bearish exactly in the mirror
\* case, sideways otherwise, whatever the other five readings and whatever
\* the primary signal.
C27_TrendFromEmasOnly ==
    Returned =>
        /\ sig.out.trend_direction \in {"bullish", "bearish", "sideways"}
        /\ sig.out.trend_direction = "bullish" <=> EmasAlignedUp(sig.args)
        /\ sig.out.trend_direction = "bearish" <=> EmasAlignedDown(sig.args)

\* C27 witness: the trend is bullish while the primary signal is SELL.
C27_Witness ==
    /\ Returned
    /\ sig.out.trend_direction = "bullish"
    /\ sig.out.primary_signal = "SELL"

\* C28: when at least one indicator is given, the primary signal is HOLD if
\* and only if the risk is high, which is if and only if confidence <= 60;
\* BUY or SELL comes with confidence > 60 and risk low or medium; and the
\* buy ratio and the sell ratio are never both above 0.6.
C28_OutputsConsistent ==
    Returned /\ Counters(sig.args).total_signals > 0 =>
        LET c == Counters(sig.args)
            out == sig.out
        IN /\ out.primary_signal = "HOLD" <=> out.risk_level = "high"
           /\ out.risk_level = "high" <=> RatLe(out.confidence, Num(60))
           /\ out.primary_signal \in {"BUY", "SELL"} =>
                /\ RatGt(out.confidence, Num(60))
                /\ out.risk_level \in {"low", "medium"}
           /\ out.primary_signal \in {"BUY", "SELL", "HOLD"}
           /\ ~(Over(c.buy_signals, c.total_signals, 6) /\ Over(c.sell_signals, c.total_signals, 6))
           /\ RatLe(RatAdd(c.buy_signals, c.sell_signals), Num(c.total_signals))

\* C28 witness: five indicators given with three buy votes: a ratio of
\* exactly 0.6, HOLD with confidence 60 and high risk.
C28_Witness ==
    /\ Returned
    /\ Counters(sig.args).total_signals = 5
    /\ Counters(sig.args).buy_signals = Num(3)
    /\ sig.out.primary_signal = "HOLD"
    /\ sig.out.confidence = Num(60)
    /\ sig.out.risk_level = "high"

\* the arguments line 583 hands to generate_trading_signals for a series of
\* prices: MACD and EMA-50 as the indicator functions give them for the
\* series, and every other reading present
FusionArguments(prices) ==
    { [current_price |-> Num(100), rsi |-> Num(25), macd_data |-> macd(prices, 12, 26, 9),
       bb_data |-> Bands(100, 110, 120, 0), stoch_data |-> [k_percent |-> Num(15)],
       williams_r |-> Num(-85), ema_20 |-> ema_20,
       ema_50 |-> exponential_moving_average(prices, 50)] :
        ema_20 \in {Num(98), Num(102)} }

\* C30: the prices compute_signal_bundle takes from a history fetched from
\* the provider are at most 30, so MACD (26 + 9 closes) and EMA-50 are None
\* for them, and the fusion step given these counts at most four indicators
\* (RSI, Bollinger, Stochastic, Williams %R) and leaves the trend sideways;
\* the series long enough for MACD and EMA-50 is the synthetic one of 50
\* points.
C30_LongIndicatorsAbsentOnRealHistory ==
    cb.pc = "done" /\ cb.acquired # None =>
        /\ cb.acquired.history # <<>> =>
             /\ ~cb.synthetic
             /\ Len(cb.prices) <= 30
             /\ macd(cb.prices, 12, 26, 9) = None
             /\ exponential_moving_average(cb.prices, 50) = None
             /\ \A a \in FusionArguments(cb.prices) :
                  LET out == generate_trading_signals(a)
                  IN /\ Counters(a).total_signals <= 4
                     /\ DOMAIN out.individual_signals
                          \subseteq {"rsi", "bollinger", "stochastic", "williams_r"}
                     /\ out.trend_direction = "sideways"
        /\ cb.synthetic => cb.acquired.history = <<>> /\ Len(cb.prices) = 50

\* C30 witness: of a series of 52 bars the adapter kept 30, all 30 closes
\* were taken, five less than MACD needs.
C30_Witness ==
    /\ cb.pc = "done" /\ cb.acquired # None /\ ~cb.synthetic
    /\ Len(win.series) = 52
    /\ Len(cb.acquired.history) = 30
    /\ Len(cb.prices) = 30
    /\ macd(cb.prices, 12, 26, 9) = None

====
